---- MODULE Spec2Model ----
(***************************************************************************)
(* Task Manager: the task index service, the workspace registry service,   *)
(* the two JSON stores they write through, and the console flows that      *)
(* drive them.                                                             *)
(*                                                                         *)
(* Representation.                                                         *)
(*   - A Python str is a sequence of one-character strings, so that        *)
(*     strip() and lower() are computed and not assumed.                   *)
(*   - None is the empty tuple.  A timestamp (datetime.now().isoformat())  *)
(*     is the one-tuple <<n>> of the clock reading n.  A uuid4 string is   *)
(*     the tuple <<"w", n>> (workspace) or <<"t", n>> (task).              *)
(*   - A Python dict that the code iterates is a sequence kept in          *)
(*     insertion order; a dict that is only indexed is a function.         *)
(*   - Task objects live in a heap: the day lists and the identifier index *)
(*     hold references to the same object, as in the program.              *)
(*   - A file is a record [kind, data]; kind is "absent", "empty"          *)
(*     (zero length), "corrupt" (text that is not JSON), "undecodable"     *)
(*     (bytes that are not UTF-8) or "json" (data is the parsed document). *)
(*   - The Cyrillic wire strings of the enums are transliterated.          *)
(***************************************************************************)
EXTENDS Integers, Sequences, FiniteSets, TLC

----------------------------------------------------------------------------
(* Bounds of the model *)

MaxTasks == 2
MaxWorkspaces == 2
MaxTime == 2

----------------------------------------------------------------------------
(* Python values *)

None == <<>>

SPACE == " "

LowerChar(c) ==
  CASE c = "A" -> "a"
    [] c = "B" -> "b"
    [] c = "M" -> "m"
    [] c = "X" -> "x"
    [] OTHER -> c

Lower(s) == [i \in 1..Len(s) |-> LowerChar(s[i])]

RECURSIVE LStrip(_)
LStrip(s) == IF s # <<>> /\ Head(s) = SPACE THEN LStrip(Tail(s)) ELSE s

RECURSIVE RStrip(_)
RStrip(s) ==
  IF s # <<>> /\ s[Len(s)] = SPACE THEN RStrip(SubSeq(s, 1, Len(s) - 1)) ELSE s

Strip(s) == RStrip(LStrip(s))

Ok(v) == [ok |-> TRUE, val |-> v]
Raise(e) == [ok |-> FALSE, val |-> e]

Range(s) == {s[i] : i \in 1..Len(s)}

(* a list that takes a new element at its head *)
ListPrepend(s, x) == <<x>> \o s

(* list.append(x) *)
ListAppend(s, x) == Append(s, x)

(* list.remove(x): excise the first element equal to x *)
RECURSIVE ListRemove(_, _)
ListRemove(s, x) ==
  IF s = <<>> THEN <<>>
  ELSE IF Head(s) = x THEN Tail(s)
       ELSE <<Head(s)>> \o ListRemove(Tail(s), x)

----------------------------------------------------------------------------
(* Enums *)

DayOrder == <<"MONDAY", "TUESDAY", "WEDNESDAY", "THURSDAY", "FRIDAY",
              "SATURDAY", "SUNDAY">>

Day == Range(DayOrder)

DayValue(d) ==
  CASE d = "MONDAY" -> "ponedelnik"
    [] d = "TUESDAY" -> "vtornik"
    [] d = "WEDNESDAY" -> "sreda"
    [] d = "THURSDAY" -> "chetverg"
    [] d = "FRIDAY" -> "pyatnitsa"
    [] d = "SATURDAY" -> "subbota"
    [] d = "SUNDAY" -> "voskresenye"

DayValues == {DayValue(d) : d \in Day}

(* a lookup that takes any string for a day *)
DayOfAnyValue(v) ==
  Ok(IF v \in DayValues THEN CHOOSE d \in Day : DayValue(d) = v ELSE "MONDAY")

(* Day(day_str): lookup of the member by value, ValueError when none has it *)
DayOfValue(v) ==
  IF v \in DayValues THEN Ok(CHOOSE d \in Day : DayValue(d) = v)
  ELSE Raise("ValueError")

TaskStatus == {"DONE", "NOT_DONE"}

StatusValue(s) == IF s = "DONE" THEN "vypolneno" ELSE "ne vypolneno"

(* a lookup that takes any string for NOT_DONE *)
StatusOfAnyValue(v) == Ok("NOT_DONE")

StatusOfValue(v) ==
  IF v = "vypolneno" THEN Ok("DONE")
  ELSE IF v = "ne vypolneno" THEN Ok("NOT_DONE")
  ELSE Raise("ValueError")

----------------------------------------------------------------------------
(* Entity models: app/models/task.py *)

(* Task(...) followed by __post_init__: both strings are stripped, an empty
   title is rejected *)
TaskNew(title, description, status, id, created_at, updated_at, completed_at) ==
  IF Strip(title) = <<>> THEN Raise("ValueError")
  ELSE IF status \notin TaskStatus THEN Raise("ValueError")
  ELSE Ok([title |-> Strip(title), description |-> Strip(description),
           status |-> status, id |-> id, created_at |-> created_at,
           updated_at |-> updated_at, completed_at |-> completed_at])

(* Task.mark_done *)
mark_done(task, t) ==
  [task EXCEPT !.status = "DONE", !.completed_at = <<t>>, !.updated_at = <<t>>]

(* a mark_status that leaves completed_at alone *)
mark_status_only(task, status, t) ==
  [task EXCEPT !.status = status, !.updated_at = <<t>>]

(* Task.mark_status *)
mark_status(task, status, t) ==
  LET t1 == [task EXCEPT !.status = status, !.updated_at = <<t>>]
  IN IF status = "DONE" /\ t1.completed_at = None
       THEN [t1 EXCEPT !.completed_at = <<t>>]
     ELSE IF status # "DONE" THEN [t1 EXCEPT !.completed_at = None]
     ELSE t1

(* Task.update: the title is assigned before it is checked, so a rejected
   call leaves the object with the empty title; obj is the object after the
   call, raised or not.  A parameter that is None is left alone. *)
TaskUpdate(task, title, description, t) ==
  LET t1 == IF title # None THEN [task EXCEPT !.title = Strip(title[1])] ELSE task
  IN IF title # None /\ t1.title = <<>>
       THEN [ok |-> FALSE, err |-> "ValueError", obj |-> t1]
     ELSE LET t2 == IF description # None
                      THEN [t1 EXCEPT !.description = Strip(description[1])]
                    ELSE t1
          IN [ok |-> TRUE, err |-> "", obj |-> [t2 EXCEPT !.updated_at = <<t>>]]

is_done(task) == task.status = "DONE"

TaskToDict(task) ==
  [id |-> task.id, title |-> task.title, description |-> task.description,
   status |-> StatusValue(task.status), created_at |-> task.created_at,
   updated_at |-> task.updated_at, completed_at |-> task.completed_at]

TaskFromDict(data) ==
  LET st == StatusOfValue(data.status)
  IN IF ~st.ok THEN Raise("ValueError")
     ELSE TaskNew(data.title, data.description, st.val, data.id,
                  data.created_at, data.updated_at, data.completed_at)

(* Entity models: app/models/workspace.py *)

WorkspaceNew(name, is_active, id, created_at, updated_at) ==
  IF Strip(name) = <<>> THEN Raise("ValueError")
  ELSE Ok([name |-> Strip(name), is_active |-> is_active, id |-> id,
           created_at |-> created_at, updated_at |-> updated_at])

(* Workspace.update(name=...): as Task.update, the name is assigned before it
   is checked *)
WorkspaceUpdate(ws, name, t) ==
  LET w1 == IF name # None THEN [ws EXCEPT !.name = Strip(name[1])] ELSE ws
  IN IF name # None /\ w1.name = <<>>
       THEN [ok |-> FALSE, err |-> "ValueError", obj |-> w1]
     ELSE [ok |-> TRUE, err |-> "", obj |-> [w1 EXCEPT !.updated_at = <<t>>]]

(* a deactivate that leaves the flag as it is *)
keep_flag(ws, t) == [ws EXCEPT !.updated_at = <<t>>]

activate(ws, t) == [ws EXCEPT !.is_active = TRUE, !.updated_at = <<t>>]

deactivate(ws, t) == [ws EXCEPT !.is_active = FALSE, !.updated_at = <<t>>]

WorkspaceToDict(ws) ==
  [id |-> ws.id, name |-> ws.name, is_active |-> ws.is_active,
   created_at |-> ws.created_at, updated_at |-> ws.updated_at]

WorkspaceFromDict(data) ==
  WorkspaceNew(data.name, data.is_active, data.id, data.created_at,
               data.updated_at)

----------------------------------------------------------------------------
(* Storage gateway: app/repositories/base_repository.py *)

AbsentFile == [kind |-> "absent", data |-> <<>>]

JsonFile(data) == [kind |-> "json", data |-> data]

FileExists(file) == file.kind # "absent"

(* _read_json raises what is no JSONDecodeError: open(encoding='utf-8') and
   read of bytes that are not UTF-8 raise UnicodeDecodeError *)
ReadRaises(file) == file.kind = "undecodable"

(* _read_json, when it returns: None for an absent, zero-length or
   unparseable file, else the one-tuple of the parsed document *)
ReadJson(file) == IF file.kind = "json" THEN <<file.data>> ELSE None

(* _write_json: the destination is overwritten *)
WriteJson(file, data) == JsonFile(data)

(* a save that makes no backup *)
NoBackup(file, backup, writable) == backup

(* _create_backup: the backup file after the call; nothing to copy when the
   file is absent, and a copy that fails is logged and swallowed *)
CreateBackup(file, backup, writable) ==
  IF FileExists(file) /\ writable THEN file ELSE backup

(* _delete_file: the file after the call and the value returned *)
DeleteFile(file) ==
  IF ~FileExists(file) THEN [file |-> file, ret |-> FALSE]
  ELSE [file |-> AbsentFile, ret |-> TRUE]

----------------------------------------------------------------------------
(* Task store: app/repositories/task_repository.py.  A partition is a
   function from Day to a sequence of tasks. *)

EmptyPartition == [d \in Day |-> <<>>]

(* TaskRepository.save: the document written *)
TaskDocument(part) ==
  [k \in {DayValue(d) : d \in DOMAIN part} |->
     LET d == CHOOSE x \in DOMAIN part : DayValue(x) = k
     IN [i \in 1..Len(part[d]) |-> TaskToDict(part[d][i])]]

(* TaskRepository.load *)
TaskRepositoryLoad(file) ==
  LET r == ReadJson(file)
  IN IF ReadRaises(file) THEN Raise("UnicodeDecodeError")
     ELSE IF r = None THEN Ok(EmptyPartition)
     ELSE LET data == r[1]
          IN IF \E k \in DOMAIN data : ~DayOfValue(k).ok
               THEN Raise("ValueError")
             ELSE IF \E k \in DOMAIN data : \E i \in 1..Len(data[k]) :
                       ~TaskFromDict(data[k][i]).ok
               THEN Raise("ValueError")
             ELSE Ok([d \in Day |->
                        IF DayValue(d) \in DOMAIN data
                          THEN [i \in 1..Len(data[DayValue(d)]) |->
                                  TaskFromDict(data[DayValue(d)][i]).val]
                        ELSE <<>>])

----------------------------------------------------------------------------
(* Workspace store: app/repositories/workspace_repository.py *)

(* WorkspaceRepository.save: the document written *)
WorkspaceDocument(workspaces_) ==
  [i \in 1..Len(workspaces_) |-> WorkspaceToDict(workspaces_[i])]

(* WorkspaceRepository.load *)
WorkspaceRepositoryLoad(file) ==
  LET r == ReadJson(file)
  IN IF ReadRaises(file) THEN Raise("UnicodeDecodeError")
     ELSE IF r = None THEN Ok(<<>>)
     ELSE LET data == r[1]
          IN IF \E i \in 1..Len(data) : ~WorkspaceFromDict(data[i]).ok
               THEN Raise("ValueError")
             ELSE Ok([i \in 1..Len(data) |-> WorkspaceFromDict(data[i]).val])

(* a save_workspace that appends whatever the list holds *)
AppendAlways(list, workspace) == Append(list, workspace)

(* WorkspaceRepository.save_workspace: the list saved (replace the first
   entry with the same id, else append) *)
Upsert(list, workspace) ==
  IF \E i \in 1..Len(list) : list[i].id = workspace.id
    THEN LET k == CHOOSE i \in 1..Len(list) :
                    /\ list[i].id = workspace.id
                    /\ \A j \in 1..(i - 1) : list[j].id # workspace.id
         IN [list EXCEPT ![k] = workspace]
  ELSE Append(list, workspace)

RECURSIVE WithoutId(_, _)
WithoutId(list, id) ==
  IF list = <<>> THEN <<>>
  ELSE IF Head(list).id # id THEN <<Head(list)>> \o WithoutId(Tail(list), id)
       ELSE WithoutId(Tail(list), id)

----------------------------------------------------------------------------
(* State *)

VARIABLES
  now,                  \* the clock datetime.now() reads
  backup_writable,      \* whether the copy _create_backup makes can be written
  workspaces_file,      \* data/workspaces.json
  workspaces_backup,    \* data/workspaces.json.backup
  task_files,           \* data/tasks/<workspace id>.json, per workspace id
  task_backups,         \* data/tasks/<workspace id>.json.backup
  workspaces,           \* WorkspaceService._workspaces, in insertion order
  active_workspace_id,  \* WorkspaceService._active_workspace_id
  current_workspace_id, \* TaskService._current_workspace_id
  tasks_by_day,         \* TaskService._tasks_by_day: Day -> list of references
  task_by_id,           \* TaskService._task_by_id: id -> reference
  task_by_name,         \* TaskService._task_by_name: name key -> list of ids
  heap,                 \* the Task objects, by reference
  last                  \* the last call: operation, arguments, outcome

disk == <<workspaces_file, workspaces_backup, task_files, task_backups>>
registry == <<workspaces, active_workspace_id>>
index == <<current_workspace_id, tasks_by_day, task_by_id, task_by_name, heap>>
vars == <<now, backup_writable, disk, registry, index, last>>

(* uuid4 values *)
WorkspaceIds == {<<"w", n>> : n \in 1..MaxWorkspaces}
TaskIds == {<<"t", n>> : n \in 1..(MaxTasks + 1)}

(* dict helpers *)
DictSet(f, k, v) == [x \in (DOMAIN f) \cup {k} |-> IF x = k THEN v ELSE f[x]]
(* a del that removes nothing *)
DictKeep(f, k) == f

DictDel(f, k) == [x \in (DOMAIN f) \ {k} |-> f[x]]
EmptyDict == <<>>

(* the last call: the handler, how it ended ("ok" or the exception raised),
   the id of the workspace it returned, if any, and whether it is a registry
   handler called twice in a row *)
Call(op, result, ret) ==
  [op |-> op, result |-> result, ret |-> ret, again |-> FALSE]

----------------------------------------------------------------------------
(* Task index service: app/services/task_service.py *)

(* the day lists with every reference replaced by the object it names *)
Deref(by_day, h) ==
  [d \in Day |-> [i \in 1..Len(by_day[d]) |-> h[by_day[d][i]]]]

RECURSIVE FlatFrom(_, _)
FlatFrom(by_day, k) ==
  IF k > Len(DayOrder) THEN <<>>
  ELSE by_day[DayOrder[k]] \o FlatFrom(by_day, k + 1)

(* the references of all day lists, in the order tasks_by_day.items() and the
   lists enumerate them *)
Flat(by_day) == FlatFrom(by_day, 1)

NameKey(title) == Strip(Lower(title))

(* a duplicate check that looks at every day instead of the day given *)
HasTaskOnAnyDay(by_day, h, day, name_key) ==
  \E d \in Day : \E i \in 1..Len(by_day[d]) :
    NameKey(h[by_day[d][i]].title) = name_key

(* _has_task_on_day *)
HasTaskOnDay(by_day, h, day, name_key) ==
  \E i \in 1..Len(by_day[day]) : NameKey(h[by_day[day][i]].title) = name_key

(* the name index after  if key not in index: index[key] = [];
   index[key].append(id) *)
NameIndexAdd(by_name, name_key, id) ==
  DictSet(by_name, name_key,
          IF name_key \in DOMAIN by_name THEN Append(by_name[name_key], id)
          ELSE <<id>>)

(* the name index after  index[key].remove(id); if not index[key]: del
   index[key]  (the caller has checked that key is there and id in it) *)
NameIndexRemove(by_name, name_key, id) ==
  LET bucket == ListRemove(by_name[name_key], id)
  IN IF bucket = <<>> THEN DictDel(by_name, name_key)
     ELSE DictSet(by_name, name_key, bucket)

(* _rebuild_indexes *)
RECURSIVE RebuildById(_, _)
RebuildById(refs, h) ==
  IF refs = <<>> THEN EmptyDict
  ELSE LET r == refs[Len(refs)]
       IN DictSet(RebuildById(SubSeq(refs, 1, Len(refs) - 1), h), h[r].id, r)

RECURSIVE RebuildByName(_, _)
RebuildByName(refs, h) ==
  IF refs = <<>> THEN EmptyDict
  ELSE LET r == refs[Len(refs)]
       IN NameIndexAdd(RebuildByName(SubSeq(refs, 1, Len(refs) - 1), h),
                       NameKey(h[r].title), h[r].id)

(* objects no list and no index refers to are gone *)
Live(by_day, by_id) == Range(Flat(by_day)) \cup {by_id[k] : k \in DOMAIN by_id}

Collect(h, by_day, by_id) ==
  [r \in (DOMAIN h) \cap Live(by_day, by_id) |-> h[r]]

NewRef(h) == CHOOSE r \in 1..(Cardinality(DOMAIN h) + 1) : r \notin DOMAIN h

(* the number of identifiers the name index holds, over all its buckets *)
NameEntries(by_name) ==
  Cardinality(UNION {{<<k, i>> : i \in 1..Len(by_name[k])} :
                       k \in DOMAIN by_name})

(* TaskRepository.save(workspace_id, tasks_by_day): backup, then write *)
TaskRepositorySave(workspace_id, part) ==
  /\ task_backups' = [task_backups EXCEPT ![workspace_id] =
                        CreateBackup(task_files[workspace_id], @, backup_writable)]
  /\ task_files' = [task_files EXCEPT ![workspace_id] =
                      WriteJson(@, TaskDocument(part))]

(* the end of every mutating handler: the index state reached in memory is
   kept, then _save_current_workspace raises ValueError when no workspace is
   loaded and else saves the day lists.  The name index can grow without
   limit (an identifier left behind in a bucket is appended again by the next
   rename); the exploration stops at MaxTasks tasks and MaxTasks entries. *)
CommitTasks(op, by_day, by_id, by_name, h) ==
  /\ Len(Flat(by_day)) <= MaxTasks
  /\ NameEntries(by_name) <= MaxTasks
  /\ tasks_by_day' = by_day
  /\ task_by_id' = by_id
  /\ task_by_name' = by_name
  /\ heap' = Collect(h, by_day, by_id)
  /\ UNCHANGED <<current_workspace_id, registry, workspaces_file,
                 workspaces_backup>>
  /\ IF current_workspace_id = None
       THEN /\ UNCHANGED <<task_files, task_backups>>
            /\ last' = Call(op, "ValueError", None)
     ELSE /\ TaskRepositorySave(current_workspace_id, Deref(by_day, h))
          /\ last' = Call(op, "ok", None)

(* a handler that empties the day lists and then raises *)
RejectedAndCleared(op, error) ==
  /\ last' = Call(op, error, None)
  /\ tasks_by_day' = EmptyPartition
  /\ UNCHANGED <<disk, registry, current_workspace_id, task_by_id,
                 task_by_name, heap>>

(* a handler that raises before it has changed anything *)
Rejected(op, error) ==
  /\ last' = Call(op, error, None)
  /\ UNCHANGED <<disk, registry, index>>

(* the objects of a partition, numbered in the order the day lists hold
   them, and the day lists of their numbers *)
PartitionHeap(part) == [i \in 1..Len(Flat(part)) |-> Flat(part)[i]]

(* day lists that refer to none of the objects *)
EmptyRefs(part) == [d \in Day |-> <<>>]

PartitionRefs(part) ==
  LET start(d) == Len(FlatFrom(part, 1)) - Len(FlatFrom(part,
                    CHOOSE k \in 1..Len(DayOrder) : DayOrder[k] = d))
  IN [d \in Day |-> [i \in 1..Len(part[d]) |-> start(d) + i]]

(* a load_workspace that binds the workspace before it asks the store *)
LoadWorkspaceBindsFirst(workspace_id) ==
  LET r == TaskRepositoryLoad(task_files[workspace_id])
  IN /\ UNCHANGED <<now, backup_writable, disk, registry>>
     /\ current_workspace_id' = workspace_id
     /\ IF ~r.ok
          THEN /\ UNCHANGED <<tasks_by_day, task_by_id, task_by_name, heap>>
               /\ last' = Call("load_workspace", r.val, None)
        ELSE LET h == PartitionHeap(r.val)
                 by_day == PartitionRefs(r.val)
             IN /\ tasks_by_day' = by_day
                /\ heap' = h
                /\ task_by_id' = RebuildById(Flat(by_day), h)
                /\ task_by_name' = RebuildByName(Flat(by_day), h)
                /\ last' = Call("load_workspace", "ok", None)

(* load_workspace *)
LoadWorkspace(workspace_id) ==
  LET r == TaskRepositoryLoad(task_files[workspace_id])
  IN /\ UNCHANGED <<now, backup_writable, disk, registry>>
     /\ IF ~r.ok
          THEN /\ UNCHANGED index
               /\ last' = Call("load_workspace", r.val, None)
        ELSE LET h == PartitionHeap(r.val)
                 by_day == PartitionRefs(r.val)
             IN /\ tasks_by_day' = by_day
                /\ current_workspace_id' = workspace_id
                /\ heap' = h
                /\ task_by_id' = RebuildById(Flat(by_day), h)
                /\ task_by_name' = RebuildByName(Flat(by_day), h)
                /\ last' = Call("load_workspace", "ok", None)

(* Task(title=..., description=...) by the caller, then add_task(day, task) *)
AddTask(day, title, description, id) ==
  LET c == TaskNew(title, description, "NOT_DONE", id, <<now>>, None, None)
  IN /\ UNCHANGED <<now, backup_writable>>
     /\ IF ~c.ok THEN Rejected("add_task", c.val)
        ELSE LET task == c.val
                 name_key == NameKey(task.title)
                 ref == NewRef(heap)
             IN IF HasTaskOnDay(tasks_by_day, heap, day, name_key)
                  THEN Rejected("add_task", "DuplicateTaskError")
                ELSE CommitTasks("add_task",
                       [tasks_by_day EXCEPT ![day] = ListAppend(@, ref)],
                       DictSet(task_by_id, id, ref),
                       NameIndexAdd(task_by_name, name_key, id),
                       DictSet(heap, ref, task))

(* a handler that raises after it has changed the memory and before it
   saves *)
Aborted(op, error, by_day, by_id, by_name, h) ==
  /\ tasks_by_day' = by_day
  /\ task_by_id' = by_id
  /\ task_by_name' = by_name
  /\ heap' = Collect(h, by_day, by_id)
  /\ UNCHANGED <<current_workspace_id, registry, disk>>
  /\ last' = Call(op, error, None)

(* for day, tasks in items(): if task in tasks: tasks.remove(task); break.
   Membership and removal compare the objects field by field (dataclass
   equality), first match first. *)
RECURSIVE RemoveFromDays(_, _, _, _)
RemoveFromDays(by_day, h, task, k) ==
  IF k > Len(DayOrder) THEN by_day
  ELSE LET d == DayOrder[k]
           hits == {i \in 1..Len(by_day[d]) : h[by_day[d][i]] = task}
       IN IF hits = {} THEN RemoveFromDays(by_day, h, task, k + 1)
          ELSE LET i == CHOOSE x \in hits : \A y \in hits : x <= y
               IN [by_day EXCEPT ![d] =
                     SubSeq(@, 1, i - 1) \o SubSeq(@, i + 1, Len(@))]

(* remove_task *)
RemoveTask(task_id) ==
  /\ UNCHANGED <<now, backup_writable>>
  /\ IF task_id \notin DOMAIN task_by_id
       THEN Rejected("remove_task", "TaskNotFoundError")
     ELSE LET task == heap[task_by_id[task_id]]
              by_day == RemoveFromDays(tasks_by_day, heap, task, 1)
              by_id == DictDel(task_by_id, task_id)
              name_key == NameKey(task.title)
          IN IF name_key \notin DOMAIN task_by_name
               THEN CommitTasks("remove_task",
                                by_day, by_id, task_by_name, heap)
             ELSE IF task_id \notin Range(task_by_name[name_key])
               THEN Aborted("remove_task", "ValueError",
                            by_day, by_id, task_by_name, heap)
             ELSE CommitTasks("remove_task",
                              by_day, by_id,
                              NameIndexRemove(task_by_name, name_key, task_id),
                              heap)

(* mark_task_done *)
MarkTaskDone(task_id) ==
  /\ UNCHANGED <<now, backup_writable>>
  /\ IF task_id \notin DOMAIN task_by_id
       THEN Rejected("mark_task_done", "TaskNotFoundError")
     ELSE LET ref == task_by_id[task_id]
          IN CommitTasks("mark_task_done", tasks_by_day,
                         task_by_id, task_by_name,
                         [heap EXCEPT ![ref] = mark_done(@, now)])

(* update_task_status *)
UpdateTaskStatus(task_id, status) ==
  /\ UNCHANGED <<now, backup_writable>>
  /\ IF task_id \notin DOMAIN task_by_id
       THEN Rejected("update_task_status", "TaskNotFoundError")
     ELSE LET ref == task_by_id[task_id]
          IN CommitTasks("update_task_status",
                         tasks_by_day, task_by_id, task_by_name,
                         [heap EXCEPT ![ref] = mark_status(@, status, now)])

(* update_task; title and description are None or the one-tuple of the new
   string *)
UpdateTask(task_id, title, description) ==
  /\ UNCHANGED <<now, backup_writable>>
  /\ IF task_id \notin DOMAIN task_by_id
       THEN Rejected("update_task", "TaskNotFoundError")
     ELSE LET ref == task_by_id[task_id]
              old_name_key == NameKey(heap[ref].title)
              u == TaskUpdate(heap[ref], title, description, now)
              h == [heap EXCEPT ![ref] = u.obj]
              new_name_key == NameKey(u.obj.title)
          IN IF ~u.ok
               THEN Aborted("update_task", u.err,
                            tasks_by_day, task_by_id, task_by_name, h)
             ELSE IF title = None \/ old_name_key = new_name_key
               THEN CommitTasks("update_task",
                                tasks_by_day, task_by_id, task_by_name, h)
             ELSE IF old_name_key \notin DOMAIN task_by_name
               THEN CommitTasks("update_task",
                       tasks_by_day, task_by_id,
                       NameIndexAdd(task_by_name, new_name_key, task_id), h)
             ELSE IF task_id \notin Range(task_by_name[old_name_key])
               THEN Aborted("update_task", "ValueError",
                            tasks_by_day, task_by_id, task_by_name, h)
             ELSE CommitTasks("update_task",
                     tasks_by_day, task_by_id,
                     NameIndexAdd(
                       NameIndexRemove(task_by_name, old_name_key, task_id),
                       new_name_key, task_id), h)

(* a lookup that finds nothing *)
get_no_task(by_id, h, task_id) == None

(* get_task_by_id: None or the one-tuple of the task *)
get_task_by_id(by_id, h, task_id) ==
  IF task_id \in DOMAIN by_id THEN <<h[by_id[task_id]]>> ELSE None

(* find_by_name: the tasks of the bucket of name.lower().strip(), looked up
   one by one in the identifier index; KeyError when an identifier of the
   bucket is not in that index *)
find_by_name(by_id, by_name, h, name) ==
  LET name_key == Strip(Lower(name))
      task_ids == IF name_key \in DOMAIN by_name THEN by_name[name_key]
                  ELSE <<>>
  IN IF \E i \in 1..Len(task_ids) : task_ids[i] \notin DOMAIN by_id
       THEN Raise("KeyError")
     ELSE Ok([i \in 1..Len(task_ids) |-> h[by_id[task_ids[i]]]])

(* get_tasks_for_day *)
get_tasks_for_day(by_day, h, day) ==
  [i \in 1..Len(by_day[day]) |-> h[by_day[day][i]]]

(* get_task_count *)
get_task_count(by_id) == Cardinality(DOMAIN by_id)

(* get_all_tasks: dict.copy(), a new dict whose values are the list objects
   the service holds.  shared says that the list under a day is the
   service's own list and not a copy of it. *)
get_all_tasks(by_day) ==
  [d \in Day |-> [shared |-> TRUE, items |-> by_day[d]]]

(* a caller of get_all_tasks that changes what it was given: it rebinds the
   entry of a day to a new list, appends a task of its own to the list of a
   day, or pops the last task off it.  A change made through a shared list
   is a change of the service's list. *)
CallerChanges ==
  {"replace", "append", "pop"}

GetAllTasksAndChange(day, change, title, id) ==
  LET all_tasks == get_all_tasks(tasks_by_day)
      entry == all_tasks[day]
      c == TaskNew(title, <<>>, "NOT_DONE", id, <<now>>, None, None)
      ref == NewRef(heap)
      items == CASE change = "append" -> Append(entry.items, ref)
                 [] change = "pop" ->
                      SubSeq(entry.items, 1, Len(entry.items) - 1)
                 [] OTHER -> entry.items
      by_day == IF change # "replace" /\ entry.shared
                  THEN [tasks_by_day EXCEPT ![day] = items]
                ELSE tasks_by_day
      h == IF change = "append" THEN DictSet(heap, ref, c.val) ELSE heap
  IN /\ change = "pop" => entry.items # <<>>
     /\ Len(Flat(by_day)) <= MaxTasks
     /\ tasks_by_day' = by_day
     /\ heap' = Collect(h, by_day, task_by_id)
     /\ last' = Call("get_all_tasks", "ok", change)
     /\ UNCHANGED <<now, backup_writable, disk, registry,
                    current_workspace_id, task_by_id, task_by_name>>

(* a clear that empties the day lists and leaves both indexes *)
ClearDayLists ==
  /\ UNCHANGED <<now, backup_writable>>
  /\ CommitTasks("clear_workspace", EmptyPartition, task_by_id,
                 task_by_name, heap)

(* a clear that rebinds the day lists to a dict with no day *)
ClearNoDays ==
  /\ tasks_by_day' = EmptyDict
  /\ task_by_id' = EmptyDict
  /\ task_by_name' = EmptyDict
  /\ heap' = EmptyDict
  /\ last' = Call("clear_workspace", "ok", None)
  /\ UNCHANGED <<now, backup_writable, disk, registry, current_workspace_id>>

(* clear_workspace *)
ClearWorkspace ==
  /\ UNCHANGED <<now, backup_writable>>
  /\ CommitTasks("clear_workspace", EmptyPartition, EmptyDict,
                 EmptyDict, heap)

(* datetime.now() moves on between calls *)
Tick ==
  /\ now < MaxTime
  /\ now' = now + 1
  /\ UNCHANGED <<backup_writable, disk, registry, index, last>>

----------------------------------------------------------------------------
(* Workspace registry service: app/services/workspace_service.py.
   A handler is a function of the registry state
     [workspaces, active, file, backup, tfiles]
   (the in-memory dict and active id, workspaces.json and its backup, the
   task files) to that state after the call with the outcome (result) and the
   id of the workspace returned (ret). *)

Registry ==
  [workspaces |-> workspaces, active |-> active_workspace_id,
   file |-> workspaces_file, backup |-> workspaces_backup,
   tfiles |-> task_files]

Done(S, result, ret) ==
  [workspaces |-> S.workspaces, active |-> S.active, file |-> S.file,
   backup |-> S.backup, tfiles |-> S.tfiles, result |-> result, ret |-> ret]

State(R) ==
  [workspaces |-> R.workspaces, active |-> R.active, file |-> R.file,
   backup |-> R.backup, tfiles |-> R.tfiles]

(* WorkspaceRepository.save(list): backup, then write *)
WorkspaceRepositorySave(S, list) ==
  [S EXCEPT !.backup = CreateBackup(S.file, @, backup_writable),
            !.file = WriteJson(@, WorkspaceDocument(list))]

(* WorkspaceRepository.save_workspace(workspace) *)
SaveWorkspace(S, workspace, ret) ==
  LET l == WorkspaceRepositoryLoad(S.file)
  IN IF ~l.ok THEN Done(S, l.val, None)
     ELSE Done(WorkspaceRepositorySave(S, Upsert(l.val, workspace)), "ok", ret)

(* a delete that saves the filtered list whether or not it got shorter *)
RepositoryDeleteAlwaysWrites(S, workspace_id) ==
  LET l == WorkspaceRepositoryLoad(S.file)
  IN IF ~l.ok THEN Done(S, l.val, None)
     ELSE Done(WorkspaceRepositorySave(S, WithoutId(l.val, workspace_id)),
               "ok", TRUE)

(* WorkspaceRepository.delete_workspace(workspace_id); ret is the boolean
   returned *)
RepositoryDeleteWorkspace(S, workspace_id) ==
  LET l == WorkspaceRepositoryLoad(S.file)
  IN IF ~l.ok THEN Done(S, l.val, None)
     ELSE LET kept == WithoutId(l.val, workspace_id)
          IN IF Len(kept) < Len(l.val)
               THEN Done(WorkspaceRepositorySave(S, kept), "ok", TRUE)
             ELSE Done(S, "ok", FALSE)

(* a cascade that leaves the task file where it is *)
KeepWorkspaceTasks(S, workspace_id) == S

(* TaskRepository.delete_workspace_tasks(workspace_id) *)
DeleteWorkspaceTasks(S, workspace_id) ==
  [S EXCEPT !.tfiles[workspace_id] = DeleteFile(@).file]

HasId(list, id) == \E i \in 1..Len(list) : list[i].id = id

(* dict.get(id) of the in-memory dict, for an id that is there *)
Get(list, id) == list[CHOOSE i \in 1..Len(list) : list[i].id = id]

(* load_all: the dict is rebuilt entry by entry, the active id is that of
   the last entry enumerated with the flag set *)
RECURSIVE AsDict(_)
AsDict(list) ==
  IF list = <<>> THEN <<>>
  ELSE Upsert(AsDict(SubSeq(list, 1, Len(list) - 1)), list[Len(list)])

RECURSIVE LastActive(_)
LastActive(list) ==
  IF list = <<>> THEN None
  ELSE IF list[Len(list)].is_active THEN list[Len(list)].id
       ELSE LastActive(SubSeq(list, 1, Len(list) - 1))

(* a load in which the first entry with the flag set wins *)
load_all_first_wins(S) ==
  LET l == WorkspaceRepositoryLoad(S.file)
      flagged == IF l.ok THEN {i \in 1..Len(l.val) : l.val[i].is_active}
                 ELSE {}
  IN IF ~l.ok THEN Done(S, l.val, None)
     ELSE Done([S EXCEPT !.workspaces = AsDict(l.val),
                         !.active =
                           IF flagged = {} THEN None
                           ELSE l.val[CHOOSE i \in flagged :
                                        \A j \in flagged : i <= j].id],
               "ok", None)

load_all(S) ==
  LET l == WorkspaceRepositoryLoad(S.file)
  IN IF ~l.ok THEN Done(S, l.val, None)
     ELSE Done([S EXCEPT !.workspaces = AsDict(l.val),
                         !.active = LastActive(l.val)], "ok", None)

(* create_workspace; id is the uuid4 drawn, t the clock reading *)
create_workspace(S, name, id, t) ==
  LET c == WorkspaceNew(name, FALSE, id, <<t>>, None)
  IN IF ~c.ok THEN Done(S, c.val, None)
     ELSE SaveWorkspace([S EXCEPT !.workspaces = Upsert(@, c.val)], c.val, id)

(* a delete that removes the task file before the workspace record *)
delete_tasks_first(S, workspace_id) ==
  IF ~HasId(S.workspaces, workspace_id) THEN Done(S, "TaskManagerError", None)
  ELSE LET S1 == [S EXCEPT !.workspaces = WithoutId(@, workspace_id),
                           !.active = IF @ = workspace_id THEN None ELSE @]
           d == RepositoryDeleteWorkspace(
                  DeleteWorkspaceTasks(S1, workspace_id), workspace_id)
       IN IF d.result # "ok" THEN d ELSE Done(State(d), "ok", None)

(* delete_workspace *)
delete_workspace(S, workspace_id) ==
  IF ~HasId(S.workspaces, workspace_id) THEN Done(S, "TaskManagerError", None)
  ELSE LET S1 == [S EXCEPT !.workspaces = WithoutId(@, workspace_id),
                           !.active = IF @ = workspace_id THEN None ELSE @]
           d == RepositoryDeleteWorkspace(S1, workspace_id)
       IN IF d.result # "ok" THEN d
          ELSE Done(DeleteWorkspaceTasks(State(d), workspace_id), "ok", None)

(* set_active_workspace *)
set_active_workspace(S, workspace_id, t) ==
  IF ~HasId(S.workspaces, workspace_id) THEN Done(S, "TaskManagerError", None)
  ELSE LET flagged == [i \in 1..Len(S.workspaces) |->
                         IF S.workspaces[i].id = workspace_id
                           THEN activate(deactivate(S.workspaces[i], t), t)
                         ELSE deactivate(S.workspaces[i], t)]
           S1 == [S EXCEPT !.workspaces = flagged, !.active = workspace_id]
       IN Done(WorkspaceRepositorySave(S1, flagged), "ok", None)

(* get_active_workspace: None or the one-tuple of the workspace *)
get_active_workspace(S) ==
  IF S.active # None /\ HasId(S.workspaces, S.active)
    THEN <<Get(S.workspaces, S.active)>>
  ELSE None

(* update_workspace; name is None or the one-tuple of the new name *)
update_workspace(S, workspace_id, name, t) ==
  IF ~HasId(S.workspaces, workspace_id) THEN Done(S, "TaskManagerError", None)
  ELSE LET u == WorkspaceUpdate(Get(S.workspaces, workspace_id), name, t)
           S1 == [S EXCEPT !.workspaces = Upsert(@, u.obj)]
       IN IF ~u.ok THEN Done(S1, u.err, None)
          ELSE SaveWorkspace(S1, u.obj, None)

DefaultName == <<"M", "o", "i", " ", "z", "a", "d", "a", "c", "h", "i">>

(* create_default_workspace *)
create_default_workspace(S, id, t) ==
  LET c == create_workspace(S, DefaultName, id, t)
  IN IF c.result # "ok" THEN c
     ELSE LET a == set_active_workspace(State(c), c.ret, t)
          IN IF a.result # "ok" THEN a ELSE Done(State(a), "ok", c.ret)

(* an ensure that creates the default workspace whatever the registry holds *)
ensure_default_workspace(S, id, t) == create_default_workspace(S, id, t)

(* ensure_active_workspace *)
ensure_active_workspace(S, id, t) ==
  LET active == get_active_workspace(S)
  IN IF active = None
       THEN IF S.workspaces # <<>>
              THEN LET a == set_active_workspace(S, S.workspaces[1].id, t)
                   IN IF a.result # "ok" THEN a
                      ELSE Done(State(a), "ok", S.workspaces[1].id)
            ELSE create_default_workspace(S, id, t)
     ELSE Done(S, "ok", active[1].id)

----------------------------------------------------------------------------
(* uuid4: an identifier nothing in memory or on disk holds yet *)

DocTaskIds(file) ==
  IF file.kind # "json" THEN {}
  ELSE UNION {{file.data[k][i].id : i \in 1..Len(file.data[k])} :
               k \in DOMAIN file.data}

UsedTaskIds ==
  {heap[r].id : r \in DOMAIN heap} \cup DOMAIN task_by_id
    \cup UNION {Range(task_by_name[k]) : k \in DOMAIN task_by_name}
    \cup UNION {DocTaskIds(task_files[w]) : w \in WorkspaceIds}
    \cup UNION {DocTaskIds(task_backups[w]) : w \in WorkspaceIds}

FreshTaskIds == TaskIds \ UsedTaskIds

NewTaskId ==
  CHOOSE id \in FreshTaskIds : \A other \in FreshTaskIds : id[2] <= other[2]

DocWorkspaceIds(file) ==
  IF file.kind # "json" THEN {}
  ELSE {file.data[i].id : i \in 1..Len(file.data)}

UsedWorkspaceIds ==
  {workspaces[i].id : i \in 1..Len(workspaces)}
    \cup {active_workspace_id, current_workspace_id}
    \cup DocWorkspaceIds(workspaces_file) \cup DocWorkspaceIds(workspaces_backup)
    \cup {w \in WorkspaceIds : FileExists(task_files[w])}
    \cup {w \in WorkspaceIds : FileExists(task_backups[w])}

FreshWorkspaceIds == WorkspaceIds \ UsedWorkspaceIds

NewWorkspaceId ==
  CHOOSE id \in FreshWorkspaceIds :
    \A other \in FreshWorkspaceIds : id[2] <= other[2]

----------------------------------------------------------------------------
(* The registry handlers as actions *)

RegistryCall(op, R) ==
  /\ workspaces' = R.workspaces
  /\ active_workspace_id' = R.active
  /\ workspaces_file' = R.file
  /\ workspaces_backup' = R.backup
  /\ task_files' = R.tfiles
  /\ last' = [Call(op, R.result, R.ret) EXCEPT !.again = (last.op = op)]
  /\ UNCHANGED <<now, backup_writable, task_backups, index>>

LoadAll == RegistryCall("load_all", load_all(Registry))

CreateWorkspace(name) ==
  /\ FreshWorkspaceIds # {}
  /\ RegistryCall("create_workspace",
                  create_workspace(Registry, name, NewWorkspaceId, now))

DeleteWorkspace(workspace_id) ==
  RegistryCall("delete_workspace",
               delete_workspace(Registry, workspace_id))

SetActiveWorkspace(workspace_id) ==
  RegistryCall("set_active_workspace",
               set_active_workspace(Registry, workspace_id, now))

(* delete_workspace in a process that ends between its two writes: the
   record is gone from workspaces.json, the task file is where it was, and
   what the services held in memory is lost; a later run starts from the
   files *)
DeleteWorkspaceCrash(workspace_id) ==
  LET S1 == [Registry EXCEPT !.workspaces = WithoutId(@, workspace_id),
                             !.active = IF @ = workspace_id THEN None ELSE @]
      d == RepositoryDeleteWorkspace(S1, workspace_id)
  IN /\ HasId(workspaces, workspace_id)
     /\ d.result = "ok"
     /\ workspaces_file' = d.file
     /\ workspaces_backup' = d.backup
     /\ task_files' = d.tfiles
     /\ workspaces' = <<>>
     /\ active_workspace_id' = None
     /\ current_workspace_id' = None
     /\ tasks_by_day' = EmptyPartition
     /\ task_by_id' = EmptyDict
     /\ task_by_name' = EmptyDict
     /\ heap' = EmptyDict
     /\ last' = Call("delete_workspace", "crashed", None)
     /\ UNCHANGED <<now, backup_writable, task_backups>>

UpdateWorkspace(workspace_id, name) ==
  RegistryCall("update_workspace",
               update_workspace(Registry, workspace_id, name, now))

CreateDefaultWorkspace ==
  /\ FreshWorkspaceIds # {}
  /\ RegistryCall("create_default_workspace",
                  create_default_workspace(Registry, NewWorkspaceId, now))

EnsureActiveWorkspace ==
  /\ \/ FreshWorkspaceIds # {}
     \/ get_active_workspace(Registry) # None
     \/ workspaces # <<>>
  /\ RegistryCall("ensure_active_workspace",
       ensure_active_workspace(Registry,
         IF FreshWorkspaceIds # {} THEN NewWorkspaceId ELSE None, now))

----------------------------------------------------------------------------
(* Console: app/ui/console_ui.py.  A flow is one action: the calls it makes
   on the two services, in its order, up to the first that raises. *)

(* the menu loop is running: run got past its start-up *)
Running == last.op # "init" /\ ~(last.op = "run" /\ last.result # "ok")

(* workspaces[int(choice) - 1] for the number typed: 0 gives the index -1,
   the last of the list; a number past the end raises IndexError *)
ChosenWorkspace(list, number) ==
  LET idx == number - 1
  IN IF idx >= Len(list) THEN Raise("IndexError")
     ELSE IF idx < 0 THEN Ok(list[Len(list) + 1 + idx])
     ELSE Ok(list[idx + 1])

(* the end of a flow: the registry calls came to R; if none of them raised
   and load names a workspace, task_service.load_workspace of it follows *)
ConsoleFlow(op, R, load) ==
  LET r == IF R.result = "ok" /\ load # None
             THEN TaskRepositoryLoad(R.tfiles[load[1]])
           ELSE Raise(R.result)
  IN /\ workspaces' = R.workspaces
     /\ active_workspace_id' = R.active
     /\ workspaces_file' = R.file
     /\ workspaces_backup' = R.backup
     /\ task_files' = R.tfiles
     /\ UNCHANGED <<now, backup_writable, task_backups>>
     /\ IF R.result = "ok" /\ load = None
          THEN /\ UNCHANGED index
               /\ last' = Call(op, "ok", None)
        ELSE IF ~r.ok
          THEN /\ UNCHANGED index
               /\ last' = Call(op, r.val, None)
        ELSE LET h == PartitionHeap(r.val)
                 by_day == PartitionRefs(r.val)
             IN /\ tasks_by_day' = by_day
                /\ current_workspace_id' = load[1]
                /\ heap' = h
                /\ task_by_id' = RebuildById(Flat(by_day), h)
                /\ task_by_name' = RebuildByName(Flat(by_day), h)
                /\ last' = Call(op, "ok", None)

(* a flow that returns before it calls a service *)
ConsoleReturn(op, why) ==
  /\ last' = Call(op, why, None)
  /\ UNCHANGED <<now, backup_writable, disk, registry, index>>

(* run, up to the menu loop.  name is None when the user declines to name the
   first workspace, else the one-tuple of the name typed, stripped. *)
Run(name) ==
  LET l == load_all(Registry)
      id == IF FreshWorkspaceIds # {} THEN NewWorkspaceId ELSE None
  IN /\ last.op = "init"
     /\ IF l.result # "ok" THEN ConsoleFlow("run", l, None)
        ELSE IF Len(l.workspaces) = 0
          THEN /\ id # None
               /\ IF name = None
                    THEN LET d == create_default_workspace(State(l), id, now)
                         IN ConsoleFlow("run", d, <<d.ret>>)
                  ELSE LET c == create_workspace(State(l),
                                  IF name[1] = <<>> THEN DefaultName
                                  ELSE name[1], id, now)
                       IN IF c.result # "ok" THEN ConsoleFlow("run", c, None)
                          ELSE ConsoleFlow("run",
                                 set_active_workspace(State(c), c.ret, now),
                                 <<c.ret>>)
        ELSE LET e == ensure_active_workspace(State(l), id, now)
             IN ConsoleFlow("run", e, <<e.ret>>)

(* _switch_workspace_flow *)
SwitchWorkspaceFlow(number) ==
  /\ Running
  /\ IF workspaces = <<>>
       THEN ConsoleReturn("switch_workspace_flow", "no workspaces")
     ELSE LET p == ChosenWorkspace(workspaces, number)
          IN IF ~p.ok THEN ConsoleReturn("switch_workspace_flow", p.val)
             ELSE ConsoleFlow("switch_workspace_flow",
                    set_active_workspace(Registry, p.val.id, now),
                    <<p.val.id>>)

(* _delete_workspace_flow *)
DeleteWorkspaceFlow(number, confirm) ==
  /\ Running
  /\ IF workspaces = <<>>
       THEN ConsoleReturn("delete_workspace_flow", "no workspaces")
     ELSE IF Len(workspaces) = 1
       THEN ConsoleReturn("delete_workspace_flow", "sole workspace")
     ELSE LET p == ChosenWorkspace(workspaces, number)
          IN IF ~p.ok THEN ConsoleReturn("delete_workspace_flow", p.val)
             ELSE IF ~confirm
               THEN ConsoleReturn("delete_workspace_flow", "cancelled")
             ELSE LET d == delete_workspace(Registry, p.val.id)
                  IN IF d.result # "ok"
                       THEN ConsoleFlow("delete_workspace_flow", d, None)
                     ELSE LET e == ensure_active_workspace(State(d), None,
                                                           now)
                          IN ConsoleFlow("delete_workspace_flow", e,
                                         <<e.ret>>)

(* _create_workspace_flow: a name typed, stripped and not empty *)
CreateWorkspaceFlow(name) ==
  /\ Running
  /\ Strip(name) = name /\ name # <<>>
  /\ CreateWorkspace(name)

----------------------------------------------------------------------------
(* Inputs *)

TitleInputs == {<<"a">>, <<"A", " ">>, <<"b">>, <<" ">>}
DescriptionInputs == {<<"d", " ">>}
TaskWorkspaceInputs == {<<"w", 1>>}
StatusTitleInput == <<"a">>
DayInputs == {"MONDAY", "TUESDAY"}
NameInputs == {<<"x">>, <<" ">>}

----------------------------------------------------------------------------
(* Specifications *)

(* both services just constructed, over a data directory that holds at most
   workspaces.json *)
Constructed ==
  /\ now = 1
  /\ backup_writable = FALSE
  /\ workspaces_backup = AbsentFile
  /\ task_files = [w \in WorkspaceIds |-> AbsentFile]
  /\ task_backups = [w \in WorkspaceIds |-> AbsentFile]
  /\ workspaces = <<>>
  /\ active_workspace_id = None
  /\ current_workspace_id = None
  /\ tasks_by_day = EmptyPartition
  /\ task_by_id = EmptyDict
  /\ task_by_name = EmptyDict
  /\ heap = EmptyDict
  /\ last = Call("init", "ok", None)

(* first run: the data directory is empty *)
Init == Constructed /\ workspaces_file = AbsentFile

(* a later run: workspaces.json is absent or holds any list of at most two
   well-formed records with distinct ids, any number of them flagged active *)
PersistedRecord(id, flag) ==
  WorkspaceToDict([name |-> <<"x">>, is_active |-> flag, id |-> id,
                   created_at |-> <<1>>, updated_at |-> None])

PersistedLists ==
  {<<>>}
    \cup {<<PersistedRecord(id, flag)>> :
            id \in WorkspaceIds, flag \in BOOLEAN}
    \cup {<<PersistedRecord(id1, flag1), PersistedRecord(id2, flag2)>> :
            id1 \in WorkspaceIds, id2 \in WorkspaceIds,
            flag1 \in BOOLEAN, flag2 \in BOOLEAN}

InitAnyFile ==
  /\ Constructed
  /\ workspaces_file \in
       {AbsentFile} \cup
       {JsonFile(l) : l \in {p \in PersistedLists :
                               \A i, j \in 1..Len(p) :
                                 p[i].id = p[j].id => i = j}}

(* the stores called directly: a caller holds a partition and a list, saves
   them and loads them back *)
StoreSaveTasks(workspace_id) ==
  /\ TaskRepositorySave(workspace_id, Deref(tasks_by_day, heap))
  /\ last' = Call("task_store_save", "ok", None)
  /\ UNCHANGED <<now, backup_writable, workspaces_file, workspaces_backup,
                 registry, index>>

StoreSaveWorkspaces ==
  RegistryCall("workspace_store_save",
               Done(WorkspaceRepositorySave(Registry, workspaces), "ok", None))

StoreDeleteWorkspace(workspace_id) ==
  RegistryCall("workspace_store_delete",
               RepositoryDeleteWorkspace(Registry, workspace_id))

StoreUpsertWorkspace(workspace) ==
  RegistryCall("workspace_store_upsert",
               SaveWorkspace(Registry, workspace, None))

(* well-formed tasks, partitions and workspace lists *)
StoreTasks(id) ==
  {TaskNew(title, description, status, id, <<1>>, updated_at,
           completed_at).val :
     title \in {<<"a">>, <<"A", " ", "b">>},
     description \in {<<>>, <<"d">>},
     status \in TaskStatus,
     updated_at \in {None, <<2>>},
     completed_at \in {None, <<2>>}}

PartitionInputs ==
  {EmptyPartition}
    \cup {[EmptyPartition EXCEPT ![d] = <<x>>] :
            d \in {"MONDAY", "SUNDAY"}, x \in StoreTasks(<<"t", 1>>)}
    \cup {[EmptyPartition EXCEPT !["FRIDAY"] = <<y, x>>] :
            x \in {z \in StoreTasks(<<"t", 1>>) : z.description = <<>>},
            y \in {z \in StoreTasks(<<"t", 2>>) :
                     /\ z.description = <<"d">>
                     /\ z.updated_at = <<2>>
                     /\ z.status = "DONE"}}

StoreWorkspaces(id) ==
  {WorkspaceNew(<<"x">>, is_active, id, <<1>>, updated_at).val :
     is_active \in BOOLEAN, updated_at \in {None, <<2>>}}

ListInputs ==
  {<<>>}
    \cup {<<x>> : x \in StoreWorkspaces(<<"w", 1>>)}
    \cup {<<x, y>> : x \in {z \in StoreWorkspaces(<<"w", 2>>) :
                               z.updated_at = None},
                     y \in {z \in StoreWorkspaces(<<"w", 1>>) :
                               z.updated_at = None}}

(* what a task file may hold before the first call: nothing, no bytes, text
   that is not JSON, bytes that are not UTF-8 text, a document with a key
   that is no day name, a document with one day *)
StoredTask == TaskToDict(CHOOSE x \in StoreTasks(<<"t", 1>>) :
                           x.title = <<"a">> /\ x.status = "DONE"
                           /\ x.description = <<>> /\ x.updated_at = <<2>>
                           /\ x.completed_at = <<2>>)

TaskFileInputs ==
  {AbsentFile,
   [kind |-> "empty", data |-> <<>>],
   [kind |-> "corrupt", data |-> <<>>],
   [kind |-> "undecodable", data |-> <<>>],
   JsonFile([k \in {"funday"} |-> <<>>]),
   JsonFile([k \in {DayValue("MONDAY"), "funday"} |->
               IF k = "funday" THEN <<>> ELSE <<StoredTask>>]),
   JsonFile([k \in {DayValue("TUESDAY")} |-> <<StoredTask>>])}

InitStore ==
  /\ now = 1
  /\ backup_writable = FALSE
  /\ workspaces_file = AbsentFile
  /\ workspaces_backup = AbsentFile
  /\ \E f \in TaskFileInputs :
       task_files = [w \in WorkspaceIds |->
                       IF w \in TaskWorkspaceInputs THEN f ELSE AbsentFile]
  /\ task_backups = [w \in WorkspaceIds |-> AbsentFile]
  /\ workspaces \in ListInputs
  /\ active_workspace_id = None
  /\ current_workspace_id = None
  /\ \E part \in PartitionInputs :
       /\ tasks_by_day = PartitionRefs(part)
       /\ heap = PartitionHeap(part)
       /\ task_by_id = RebuildById(Flat(PartitionRefs(part)),
                                   PartitionHeap(part))
       /\ task_by_name = RebuildByName(Flat(PartitionRefs(part)),
                                       PartitionHeap(part))
  /\ last = Call("init", "ok", None)

StoreNext ==
  \/ \E w \in TaskWorkspaceInputs : StoreSaveTasks(w)
  \/ \E w \in TaskWorkspaceInputs : LoadWorkspace(w)
  \/ StoreSaveWorkspaces
  \/ LoadAll

TaskNext ==
  \/ \E w \in TaskWorkspaceInputs : LoadWorkspace(w)
  \/ \E day \in DayInputs, title \in TitleInputs,
        description \in DescriptionInputs :
       /\ FreshTaskIds # {}
       /\ AddTask(day, title, description, NewTaskId)
  \/ \E id \in TaskIds : RemoveTask(id)
  \/ \E id \in TaskIds, title \in {None} \cup {<<x>> : x \in TitleInputs},
        description \in {None} \cup {<<x>> : x \in DescriptionInputs} :
       UpdateTask(id, title, description)
  \/ ClearWorkspace

(* the status handlers, under a clock that moves *)
TaskStatusNext ==
  \/ \E w \in TaskWorkspaceInputs : LoadWorkspace(w)
  \/ \E day \in DayInputs, description \in DescriptionInputs :
       /\ FreshTaskIds # {}
       /\ AddTask(day, StatusTitleInput, description, NewTaskId)
  \/ \E id \in TaskIds : RemoveTask(id)
  \/ \E id \in TaskIds : MarkTaskDone(id)
  \/ \E id \in TaskIds, status \in TaskStatus : UpdateTaskStatus(id, status)
  \/ Tick

RegistryNext ==
  \/ LoadAll
  \/ \E name \in NameInputs : CreateWorkspace(name)
  \/ \E id \in WorkspaceIds : DeleteWorkspace(id)
  \/ \E id \in WorkspaceIds : SetActiveWorkspace(id)
  \/ \E id \in WorkspaceIds, name \in {None} \cup {<<x>> : x \in NameInputs} :
       UpdateWorkspace(id, name)
  \/ CreateDefaultWorkspace
  \/ EnsureActiveWorkspace
  \/ Tick

SpecTasks == Init /\ [][TaskNext]_vars

(* the registry of a later run: load_all first, as the console's run does,
   then any handler *)
RegistryAfterLoadNext ==
  IF last.op = "init" THEN LoadAll ELSE RegistryNext

(* the registry together with a task service that loads workspaces and writes
   their task files *)
RegistryTasksNext ==
  \/ LoadAll
  \/ CreateWorkspace(DefaultName)
  \/ \E id \in WorkspaceIds : DeleteWorkspace(id)
  \/ \E id \in WorkspaceIds : SetActiveWorkspace(id)
  \/ EnsureActiveWorkspace
  \/ \E w \in WorkspaceIds : LoadWorkspace(w)
  \/ \E day \in DayInputs, description \in DescriptionInputs :
       /\ FreshTaskIds # {}
       /\ AddTask(day, StatusTitleInput, description, NewTaskId)
  \/ ClearWorkspace

(* a run of the console over the data directory of earlier runs: the
   workspaces file of InitAnyFile, and for each workspace it lists a task
   file that is absent, holds one task or holds a key that is no day name *)
ConsoleTaskFiles ==
  {f \in TaskFileInputs :
     f.kind \in {"absent", "json"} /\ Cardinality(DOMAIN f.data) <= 1}

InitConsole ==
  /\ now = 1
  /\ backup_writable = FALSE
  /\ workspaces_file \in
       {AbsentFile} \cup
       {JsonFile(l) : l \in {p \in PersistedLists :
                               \A i, j \in 1..Len(p) :
                                 p[i].id = p[j].id => i = j}}
  /\ workspaces_backup = AbsentFile
  /\ task_files \in [WorkspaceIds -> ConsoleTaskFiles]
  /\ \A w \in WorkspaceIds :
       w \notin DocWorkspaceIds(workspaces_file) => task_files[w] = AbsentFile
  /\ task_backups = [w \in WorkspaceIds |-> AbsentFile]
  /\ workspaces = <<>>
  /\ active_workspace_id = None
  /\ current_workspace_id = None
  /\ tasks_by_day = EmptyPartition
  /\ task_by_id = EmptyDict
  /\ task_by_name = EmptyDict
  /\ heap = EmptyDict
  /\ last = Call("init", "ok", None)

ConsoleNext ==
  \/ \E name \in {None, <<<<>>>>, <<<<"x">>>>} : Run(name)
  \/ \E number \in 0..(MaxWorkspaces + 1) : SwitchWorkspaceFlow(number)
  \/ \E number \in 0..(MaxWorkspaces + 1), confirm \in BOOLEAN :
       DeleteWorkspaceFlow(number, confirm)
  \/ CreateWorkspaceFlow(<<"x">>)
  \/ \E day \in DayInputs, description \in DescriptionInputs :
       /\ Running
       /\ FreshTaskIds # {}
       /\ AddTask(day, StatusTitleInput, description, NewTaskId)

(* the workspace store called directly: a caller holds a list, saves it and
   deletes records by id, over a workspaces.json that is absent or holds a
   list, with a backup that can or cannot be written *)
InitWorkspaceStore ==
  /\ now = 1
  /\ backup_writable \in BOOLEAN
  /\ workspaces_file \in
       {AbsentFile} \cup {JsonFile(WorkspaceDocument(l)) : l \in ListInputs}
  /\ workspaces_backup = AbsentFile
  /\ task_files = [w \in WorkspaceIds |-> AbsentFile]
  /\ task_backups = [w \in WorkspaceIds |-> AbsentFile]
  /\ workspaces \in ListInputs
  /\ active_workspace_id = None
  /\ current_workspace_id = None
  /\ tasks_by_day = EmptyPartition
  /\ task_by_id = EmptyDict
  /\ task_by_name = EmptyDict
  /\ heap = EmptyDict
  /\ last = Call("init", "ok", None)

(* the workspaces a caller upserts: renamed, of either id *)
UpsertInputs ==
  {WorkspaceNew(<<"y">>, is_active, id, <<1>>, <<2>>).val :
     is_active \in BOOLEAN, id \in WorkspaceIds}

WorkspaceStoreNext ==
  \/ StoreSaveWorkspaces
  \/ \E id \in WorkspaceIds : StoreDeleteWorkspace(id)
  \/ \E workspace \in UpsertInputs : StoreUpsertWorkspace(workspace)
  \/ LoadAll

(* first run, with a data directory in which backup files can or cannot be
   written *)
InitBackup ==
  /\ now = 1
  /\ backup_writable \in BOOLEAN
  /\ workspaces_file = AbsentFile
  /\ workspaces_backup = AbsentFile
  /\ task_files = [w \in WorkspaceIds |-> AbsentFile]
  /\ task_backups = [w \in WorkspaceIds |-> AbsentFile]
  /\ workspaces = <<>>
  /\ active_workspace_id = None
  /\ current_workspace_id = None
  /\ tasks_by_day = EmptyPartition
  /\ task_by_id = EmptyDict
  /\ task_by_name = EmptyDict
  /\ heap = EmptyDict
  /\ last = Call("init", "ok", None)

(* the handlers that save once, and the loads *)
BackupNext ==
  \/ LoadAll
  \/ CreateWorkspace(DefaultName)
  \/ \E id \in WorkspaceIds : DeleteWorkspace(id)
  \/ \E id \in WorkspaceIds : SetActiveWorkspace(id)
  \/ \E w \in TaskWorkspaceInputs : LoadWorkspace(w)
  \/ \E day \in DayInputs :
       /\ FreshTaskIds # {}
       /\ AddTask(day, StatusTitleInput, <<>>, NewTaskId)
  \/ \E id \in TaskIds : RemoveTask(id)

(* the registry with delete_workspace completed, failed or cut short, and a
   task service that writes task files *)
DeleteNext ==
  \/ LoadAll
  \/ \E name \in NameInputs : CreateWorkspace(name)
  \/ \E id \in WorkspaceIds, name \in NameInputs :
       UpdateWorkspace(id, <<name>>)
  \/ \E id \in WorkspaceIds : SetActiveWorkspace(id)
  \/ \E id \in WorkspaceIds : DeleteWorkspace(id)
  \/ \E id \in WorkspaceIds : DeleteWorkspaceCrash(id)
  \/ \E w \in WorkspaceIds : LoadWorkspace(w)
  \/ /\ FreshTaskIds # {}
     /\ AddTask("MONDAY", StatusTitleInput, <<>>, NewTaskId)

(* the task service over the data directory of earlier runs: each task
   file is any of TaskFileInputs *)
InitTaskFiles ==
  /\ now = 1
  /\ backup_writable = FALSE
  /\ workspaces_file = AbsentFile
  /\ workspaces_backup = AbsentFile
  /\ task_files \in [WorkspaceIds -> TaskFileInputs]
  /\ task_backups = [w \in WorkspaceIds |-> AbsentFile]
  /\ workspaces = <<>>
  /\ active_workspace_id = None
  /\ current_workspace_id = None
  /\ tasks_by_day = EmptyPartition
  /\ task_by_id = EmptyDict
  /\ task_by_name = EmptyDict
  /\ heap = EmptyDict
  /\ last = Call("init", "ok", None)

TaskFilesNext ==
  \/ \E w \in WorkspaceIds : LoadWorkspace(w)
  \/ \E day \in DayInputs, description \in DescriptionInputs :
       /\ FreshTaskIds # {}
       /\ AddTask(day, StatusTitleInput, description, NewTaskId)
  \/ \E id \in TaskIds : RemoveTask(id)
  \/ ClearWorkspace

(* the handlers that keep or change the order of a day list, with two
   titles so that a day can hold two tasks *)
OrderTitleInputs == {<<"a">>, <<"b">>}

OrderNext ==
  \/ \E w \in TaskWorkspaceInputs : LoadWorkspace(w)
  \/ \E day \in DayInputs, title \in OrderTitleInputs :
       /\ FreshTaskIds # {}
       /\ AddTask(day, title, <<>>, NewTaskId)
  \/ \E id \in TaskIds : RemoveTask(id)
  \/ \E id \in TaskIds : MarkTaskDone(id)
  \/ \E id \in TaskIds, status \in TaskStatus : UpdateTaskStatus(id, status)
  \/ \E id \in TaskIds, title \in {None} \cup {<<x>> : x \in OrderTitleInputs} :
       UpdateTask(id, title, None)

(* the task service and a caller that changes what get_all_tasks gave it *)
CallerNext ==
  \/ \E w \in TaskWorkspaceInputs : LoadWorkspace(w)
  \/ \E day \in DayInputs, description \in DescriptionInputs :
       /\ FreshTaskIds # {}
       /\ AddTask(day, StatusTitleInput, description, NewTaskId)
  \/ \E id \in TaskIds : RemoveTask(id)
  \/ \E day \in DayInputs, change \in CallerChanges :
       /\ FreshTaskIds # {}
       /\ GetAllTasksAndChange(day, change, StatusTitleInput, NewTaskId)

SpecStore == InitStore /\ [][StoreNext]_vars

SpecCaller == Init /\ [][CallerNext]_vars

SpecConsole == InitConsole /\ [][ConsoleNext]_vars

SpecOrder == Init /\ [][OrderNext]_vars

SpecTaskFiles == InitTaskFiles /\ [][TaskFilesNext]_vars

SpecWorkspaceStore == InitWorkspaceStore /\ [][WorkspaceStoreNext]_vars

SpecBackup == InitBackup /\ [][BackupNext]_vars

SpecDelete == Init /\ [][DeleteNext]_vars

SpecTaskStatus == Init /\ [][TaskStatusNext]_vars

SpecRegistry == Init /\ [][RegistryNext]_vars

SpecRegistryAnyFile == InitAnyFile /\ [][RegistryAfterLoadNext]_vars

SpecRegistryTasks == Init /\ [][RegistryTasksNext]_vars

----------------------------------------------------------------------------
(* Properties of the task index service *)

MutatingTaskOps ==
  {"add_task", "remove_task", "mark_task_done", "update_task_status",
   "update_task", "clear_workspace"}

MutatingRegistryOps ==
  {"create_workspace", "delete_workspace", "set_active_workspace",
   "update_workspace"}

(* the tasks the service holds: those of the day lists and of the identifier
   index *)
HeldTasks == {heap[r] : r \in Live(tasks_by_day, task_by_id)}

(* C1: a mutating call of either service that fails leaves the day lists (and
   the tasks in them), both indexes, the workspace map, the active id and
   every file exactly as they were before the call. *)
C1_FailedCallChangesNothing ==
  [][(/\ last'.op \in MutatingTaskOps \cup MutatingRegistryOps
      /\ last'.result # "ok")
     => UNCHANGED <<index, registry, disk>>]_vars

(* C2: with a workspace loaded, add_task(day, t) ends with DuplicateTaskError
   and changes nothing when a task of that day has the same lowercased,
   trimmed title as t, and else succeeds with t appended to that day, whatever
   the other days hold. *)
C2_DuplicatePerDayOnly ==
  [][\A day \in DayInputs, title \in TitleInputs,
        description \in DescriptionInputs :
       (/\ last'.op = "add_task"
        /\ current_workspace_id # None
        /\ Strip(title) # <<>>
        /\ FreshTaskIds # {}
        /\ AddTask(day, title, description, NewTaskId))
       => IF \E i \in 1..Len(tasks_by_day[day]) :
               Strip(Lower(heap[tasks_by_day[day][i]].title))
                 = Strip(Lower(Strip(title)))
            THEN /\ last'.result = "DuplicateTaskError"
                 /\ UNCHANGED <<index, disk>>
          ELSE /\ last'.result = "ok"
               /\ Len(tasks_by_day'[day]) = Len(tasks_by_day[day]) + 1
               /\ LET task == heap'[tasks_by_day'[day][Len(tasks_by_day'[day])]]
                  IN task.id = NewTaskId /\ task.title = Strip(title)]_vars

(* C2 witness: an add_task has just been rejected as a duplicate while the
   same normalized title sits on two different days, which an earlier
   add_task to the second day put there *)
C2_Witness ==
  /\ current_workspace_id # None
  /\ last.op = "add_task"
  /\ last.result = "DuplicateTaskError"
  /\ \E i \in 1..Len(tasks_by_day["MONDAY"]) :
       \E j \in 1..Len(tasks_by_day["TUESDAY"]) :
         /\ heap[tasks_by_day["MONDAY"][i]].title # <<>>
         /\ NameKey(heap[tasks_by_day["MONDAY"][i]].title)
              = NameKey(heap[tasks_by_day["TUESDAY"][j]].title)

(* C3: every task held in a day list or in the identifier index has a title
   that is not empty after trimming, also after a rejected update_task. *)
C3_TitleNeverEmpty == \A task \in HeldTasks : Strip(task.title) # <<>>

(* C9: with a workspace loaded, right after a mutating task call that
   succeeded, loading the file of the bound workspace through the task store
   gives a partition equal to the day lists in memory. *)
C9_TaskWriteThrough ==
  (/\ current_workspace_id # None
   /\ last.op \in MutatingTaskOps
   /\ last.result = "ok")
  => LET r == TaskRepositoryLoad(task_files[current_workspace_id])
     IN r.ok /\ r.val = Deref(tasks_by_day, heap)

----------------------------------------------------------------------------
(* Properties of the workspace registry service *)

(* the in-memory workspaces with the flag set, and the persisted records with
   is_active true *)
FlaggedInMemory == {i \in 1..Len(workspaces) : workspaces[i].is_active}

FlaggedOnDisk ==
  IF workspaces_file.kind # "json" THEN {}
  ELSE {i \in 1..Len(workspaces_file.data) :
          workspaces_file.data[i].is_active}

(* C4: delete_workspace of the only workspace the registry holds fails and
   the registry still holds it. *)
C4_SoleWorkspaceIsKept ==
  [][\A id \in WorkspaceIds :
       (/\ last'.op = "delete_workspace"
        /\ Len(workspaces) = 1
        /\ workspaces[1].id = id
        /\ DeleteWorkspace(id))
       => /\ last'.result # "ok"
          /\ workspaces' = workspaces]_vars

(* C5: after delete_workspace(id) has succeeded for an id the registry held,
   the registry does not hold it, workspaces.json has no record with that id
   and the task file of that id does not exist. *)
C5_DeleteCascades ==
  [][\A id \in WorkspaceIds :
       (/\ last'.op = "delete_workspace"
        /\ HasId(workspaces, id)
        /\ DeleteWorkspace(id)
        /\ last'.result = "ok")
       => /\ ~HasId(workspaces', id)
          /\ id \notin DocWorkspaceIds(workspaces_file')
          /\ ~FileExists(task_files'[id])]_vars

(* C5 witness: delete_workspace has just succeeded on the workspace the task
   service is bound to and holds tasks of, so that its task file, written by
   add_task, was there to delete *)
C5_Witness ==
  /\ last.op = "delete_workspace"
  /\ last.result = "ok"
  /\ current_workspace_id # None
  /\ Len(Flat(tasks_by_day)) > 0
  /\ ~HasId(workspaces, current_workspace_id)
  /\ current_workspace_id \notin DocWorkspaceIds(workspaces_file)
  /\ ~FileExists(task_files[current_workspace_id])
  /\ workspaces # <<>>

(* C6: from an empty data directory, at most one workspace in memory is
   flagged active, at most one persisted record is, and a workspace flagged
   in memory is the one whose id is the tracked active id. *)
C6_AtMostOneActive ==
  /\ Cardinality(FlaggedInMemory) <= 1
  /\ Cardinality(FlaggedOnDisk) <= 1
  /\ \A i \in FlaggedInMemory : workspaces[i].id = active_workspace_id

(* C6 witness: two workspaces, the second flagged by set_active_workspace
   after the first had been *)
C6_Witness ==
  /\ last.op = "set_active_workspace"
  /\ last.result = "ok"
  /\ Len(workspaces) = 2
  /\ FlaggedInMemory = {2}
  /\ FlaggedOnDisk = {2}
  /\ workspaces[1].updated_at # None
  /\ active_workspace_id = workspaces[2].id

(* C7: when ensure_active_workspace returns, after load_all of any persisted
   list and any registry calls, exactly one workspace is flagged active, it is
   the one returned and its id is the tracked active id. *)
C7_EnsureLeavesOneActive ==
  (last.op = "ensure_active_workspace" /\ last.result = "ok")
  => /\ Cardinality(FlaggedInMemory) = 1
     /\ \A i \in FlaggedInMemory : workspaces[i].id = last.ret
     /\ active_workspace_id = last.ret

(* C8: a second ensure_active_workspace right after one that returned returns
   the same workspace, creates none and changes neither the number of
   workspaces nor the active id. *)
C8_EnsureIdempotent ==
  [][(/\ last.op = "ensure_active_workspace"
      /\ last.result = "ok"
      /\ EnsureActiveWorkspace)
     => /\ last'.result = "ok"
        /\ last'.ret = last.ret
        /\ Len(workspaces') = Len(workspaces)
        /\ {workspaces'[i].id : i \in 1..Len(workspaces')}
             = {workspaces[i].id : i \in 1..Len(workspaces)}
        /\ active_workspace_id' = active_workspace_id]_vars

(* C8 witness: ensure_active_workspace has returned twice in a row, the first
   time having created the default workspace *)
C8_Witness ==
  /\ last.op = "ensure_active_workspace"
  /\ last.again
  /\ last.result = "ok"
  /\ Len(workspaces) = 1
  /\ workspaces[1].name = DefaultName
  /\ last.ret = workspaces[1].id

(* C10: after load_all, right after a registry call that succeeded,
   workspaces.json holds exactly the in-memory workspaces, each with the same
   id, name and active flag. *)
Shown(list) ==
  {[id |-> list[i].id, name |-> list[i].name, is_active |-> list[i].is_active] :
     i \in 1..Len(list)}

C10_WorkspaceWriteThrough ==
  (/\ last.op \in MutatingRegistryOps
                  \cup {"create_default_workspace", "ensure_active_workspace"}
   /\ last.result = "ok")
  => /\ workspaces_file.kind = "json"
     /\ Len(workspaces_file.data) = Len(workspaces)
     /\ Shown(workspaces_file.data) = Shown(workspaces)

----------------------------------------------------------------------------
(* Properties of the task index service, continued *)

(* the names a caller may look up: those typed and those stored *)
LookupNames == TitleInputs \cup {task.title : task \in HeldTasks}

(* C11: while no workspace is loaded, a mutating call fails, and no task is
   visible through get_task_by_id, find_by_name, get_tasks_for_day or
   get_task_count, and no task file exists. *)
C11_UnloadedHoldsNothing ==
  current_workspace_id = None
  => /\ last.op \in MutatingTaskOps => last.result # "ok"
     /\ \A id \in TaskIds : get_task_by_id(task_by_id, heap, id) = None
     /\ \A name \in LookupNames :
          find_by_name(task_by_id, task_by_name, heap, name) = Ok(<<>>)
     /\ \A day \in Day : get_tasks_for_day(tasks_by_day, heap, day) = <<>>
     /\ get_task_count(task_by_id) = 0
     /\ \A w \in WorkspaceIds : ~FileExists(task_files[w])

(* C12: after remove_task(id) has succeeded, get_task_by_id(id) returns no
   task and find_by_name of the title the removed task had returns the empty
   list. *)
C12_RemovedTitleFindsNothing ==
  [][\A id \in TaskIds :
       (/\ last'.op = "remove_task"
        /\ id \in DOMAIN task_by_id
        /\ RemoveTask(id)
        /\ last'.result = "ok")
       => /\ get_task_by_id(task_by_id', heap', id) = None
          /\ find_by_name(task_by_id', task_by_name', heap',
                          heap[task_by_id[id]].title) = Ok(<<>>)]_vars

(* C12, amended: after remove_task(id) has succeeded, get_task_by_id(id)
   returns no task and no task that find_by_name of the former title returns
   has the identifier id; the tasks of other days with that title are still
   returned. *)
C12_RemovedIsNotFound ==
  [][\A id \in TaskIds :
       (/\ last'.op = "remove_task"
        /\ id \in DOMAIN task_by_id
        /\ RemoveTask(id)
        /\ last'.result = "ok")
       => /\ get_task_by_id(task_by_id', heap', id) = None
          /\ LET r == find_by_name(task_by_id', task_by_name', heap',
                                   heap[task_by_id[id]].title)
             IN r.ok => \A i \in 1..Len(r.val) : r.val[i].id # id]_vars

(* C12 witness: remove_task has just succeeded with a workspace loaded, and a
   task is still held that find_by_name returns under its title *)
C12_Witness ==
  /\ current_workspace_id # None
  /\ last.op = "remove_task"
  /\ last.result = "ok"
  /\ \E task \in HeldTasks :
       LET r == find_by_name(task_by_id, task_by_name, heap, task.title)
       IN r.ok /\ r.val = <<task>>

(* C13: for a title that is not empty after trimming, right after add_task
   of a task created with it has succeeded with a workspace loaded,
   get_task_by_id of its identifier returns a task with exactly the title
   given and the status NOT_DONE. *)
C13_LookupReturnsTitleGiven ==
  [][\A day \in DayInputs, title \in TitleInputs,
        description \in DescriptionInputs :
       (/\ last'.op = "add_task"
        /\ current_workspace_id # None
        /\ Strip(title) # <<>>
        /\ FreshTaskIds # {}
        /\ AddTask(day, title, description, NewTaskId)
        /\ last'.result = "ok")
       => LET found == get_task_by_id(task_by_id', heap', NewTaskId)
          IN /\ found # None
             /\ found[1].title = title
             /\ found[1].status = "NOT_DONE"]_vars

(* C13, amended: the task returned has the title given with the surrounding
   whitespace removed, and the status NOT_DONE. *)
C13_LookupReturnsTrimmedTitle ==
  [][\A day \in DayInputs, title \in TitleInputs,
        description \in DescriptionInputs :
       (/\ last'.op = "add_task"
        /\ current_workspace_id # None
        /\ Strip(title) # <<>>
        /\ FreshTaskIds # {}
        /\ AddTask(day, title, description, NewTaskId)
        /\ last'.result = "ok")
       => LET found == get_task_by_id(task_by_id', heap', NewTaskId)
          IN /\ found # None
             /\ found[1].title = Strip(title)
             /\ found[1].id = NewTaskId
             /\ found[1].status = "NOT_DONE"]_vars

(* C13 witness: add_task has just succeeded with a workspace loaded for a
   task whose title was typed with a trailing blank, and the lookup by its
   identifier returns it with the title "A" *)
C13_Witness ==
  /\ current_workspace_id # None
  /\ last.op = "add_task"
  /\ last.result = "ok"
  /\ <<"A", " ">> \in TitleInputs
  /\ \E id \in TaskIds :
       LET found == get_task_by_id(task_by_id, heap, id)
       IN /\ found # None
          /\ found[1].title = <<"A">>
          /\ found[1].status = "NOT_DONE"
          /\ found[1].updated_at = None

(* C17: after clear_workspace has succeeded with a workspace loaded, the
   seven day lists are empty, get_task_count is 0, get_task_by_id and
   find_by_name find nothing, the file of the bound workspace loads as the
   partition with every day empty, and the bound workspace is the same. *)
C17_ClearEmptiesEverything ==
  [][(/\ last'.op = "clear_workspace"
      /\ current_workspace_id # None
      /\ ClearWorkspace)
     => /\ last'.result = "ok"
        /\ \A day \in Day : get_tasks_for_day(tasks_by_day', heap', day) = <<>>
        /\ get_task_count(task_by_id') = 0
        /\ \A id \in TaskIds : get_task_by_id(task_by_id', heap', id) = None
        /\ \A name \in LookupNames :
             find_by_name(task_by_id', task_by_name', heap', name) = Ok(<<>>)
        /\ TaskRepositoryLoad(task_files'[current_workspace_id])
             = Ok(EmptyPartition)
        /\ current_workspace_id' = current_workspace_id]_vars

(* C17 witness: clear_workspace has just succeeded with a workspace loaded,
   whose file now holds seven empty days *)
C17_Witness ==
  /\ current_workspace_id # None
  /\ last.op = "clear_workspace"
  /\ last.result = "ok"
  /\ task_files[current_workspace_id].kind = "json"
  /\ DOMAIN task_files[current_workspace_id].data = DayValues
  /\ \A k \in DayValues : task_files[current_workspace_id].data[k] = <<>>
  /\ task_by_id = EmptyDict
  /\ task_by_name = EmptyDict

----------------------------------------------------------------------------
(* Properties of the stores *)

(* C14: load after save gives back what was saved: for a well-formed
   partition and a workspace id the task store returns an equal partition
   (seven days, the same tasks in the same order with the same fields), and
   for a well-formed workspace list the workspace store returns an equal list
   in the same order. *)
C14_StoreRoundTrip ==
  [][/\ \A w \in TaskWorkspaceInputs :
          StoreSaveTasks(w)
          => TaskRepositoryLoad(task_files'[w]) = Ok(Deref(tasks_by_day, heap))
     /\ StoreSaveWorkspaces
          => WorkspaceRepositoryLoad(workspaces_file') = Ok(workspaces)]_vars

(* C14 witness: both stores have saved; the task file holds two tasks on
   one day, the first of them DONE with every timestamp set, and
   workspaces.json holds two records *)
C14_Witness ==
  /\ last.op \in {"task_store_save", "workspace_store_save"}
  /\ \E w \in TaskWorkspaceInputs :
       /\ task_files[w].kind = "json"
       /\ DOMAIN task_files[w].data = DayValues
       /\ Len(task_files[w].data[DayValue("FRIDAY")]) = 2
       /\ task_files[w].data[DayValue("FRIDAY")][1].status = StatusValue("DONE")
       /\ task_files[w].data[DayValue("FRIDAY")][1].completed_at # None
       /\ TaskRepositoryLoad(task_files[w]) = Ok(Deref(tasks_by_day, heap))
  /\ workspaces_file.kind = "json"
  /\ Len(workspaces_file.data) = 2
  /\ WorkspaceRepositoryLoad(workspaces_file) = Ok(workspaces)

(* the task files with a key that is not one of the seven day names *)
HasUnknownDayKey(file) ==
  /\ file.kind = "json"
  /\ \E k \in DOMAIN file.data :
       k \notin {"ponedelnik", "vtornik", "sreda", "chetverg", "pyatnitsa",
                 "subbota", "voskresenye"}

(* C18: the task store's load of a file with a key that is not a day name
   fails; no partition is returned, and load_workspace on it ends with the
   error. *)
C18_UnknownDayKeyRejected ==
  \A w \in WorkspaceIds :
    HasUnknownDayKey(task_files[w])
    => /\ ~TaskRepositoryLoad(task_files[w]).ok
       /\ (last.op = "load_workspace" /\ TaskWorkspaceInputs = {w})
            => last.result = "ValueError" /\ current_workspace_id # w

(* C18 witness: load_workspace has just failed on a file that holds a task
   under a day name next to the unknown key *)
C18_Witness ==
  /\ last.op = "load_workspace"
  /\ last.result = "ValueError"
  /\ \E w \in TaskWorkspaceInputs :
       /\ HasUnknownDayKey(task_files[w])
       /\ DayValue("MONDAY") \in DOMAIN task_files[w].data
       /\ Len(task_files[w].data[DayValue("MONDAY")]) = 1

----------------------------------------------------------------------------
(* Properties of the status handlers *)

(* C15: once a task is DONE, a further mark_task_done(id) or
   update_task_status(id, DONE), called with a workspace loaded, leaves its
   completed_at as it is. *)
C15_CompletedAtSetOnce ==
  [][\A id \in TaskIds :
       (/\ last'.op \in {"mark_task_done", "update_task_status"}
        /\ current_workspace_id # None
        /\ id \in DOMAIN task_by_id
        /\ heap[task_by_id[id]].status = "DONE"
        /\ MarkTaskDone(id) \/ UpdateTaskStatus(id, "DONE"))
       => heap'[task_by_id'[id]].completed_at
            = heap[task_by_id[id]].completed_at]_vars

(* C16: after update_task_status(id, s) has succeeded on a known task its
   status is s and its completed_at is set when s is DONE and None when s is
   NOT_DONE; after mark_task_done(id) has succeeded its status is DONE and
   its completed_at is set. *)
C16_StatusAndCompletedAt ==
  [][\A id \in TaskIds :
       /\ \A s \in TaskStatus :
            (/\ last'.op = "update_task_status"
             /\ id \in DOMAIN task_by_id
             /\ UpdateTaskStatus(id, s)
             /\ last'.result = "ok")
            => LET task == heap'[task_by_id'[id]]
               IN /\ task.status = s
                  /\ s = "DONE" => task.completed_at # None
                  /\ s = "NOT_DONE" => task.completed_at = None
       /\ (/\ last'.op = "mark_task_done"
           /\ id \in DOMAIN task_by_id
           /\ MarkTaskDone(id)
           /\ last'.result = "ok")
          => LET task == heap'[task_by_id'[id]]
             IN task.status = "DONE" /\ task.completed_at # None]_vars

(* C16 witness: update_task_status has just succeeded, and a task that was
   completed at time 1 and updated at time 2 is DONE, while another that
   was updated is NOT_DONE with no completed_at *)
C16_Witness ==
  /\ current_workspace_id # None
  /\ last.op = "update_task_status"
  /\ last.result = "ok"
  /\ \E task \in HeldTasks :
       /\ task.status = "DONE"
       /\ task.completed_at = <<1>>
       /\ task.updated_at = <<2>>
  /\ \E task \in HeldTasks :
       /\ task.status = "NOT_DONE"
       /\ task.completed_at = None
       /\ task.updated_at # None

----------------------------------------------------------------------------
(* C19: what get_all_tasks returns is a defensive copy: a caller that replaces
   the entry of a day, appends to a returned day list or removes from one
   leaves the day lists the service holds, both its indexes and the number
   get_task_count returns as they were. *)
C19_AllTasksIsDefensiveCopy ==
  [][last'.op = "get_all_tasks" =>
       /\ Deref(tasks_by_day', heap') = Deref(tasks_by_day, heap)
       /\ [id \in DOMAIN task_by_id' |-> heap'[task_by_id'[id]]]
            = [id \in DOMAIN task_by_id |-> heap[task_by_id[id]]]
       /\ task_by_name' = task_by_name
       /\ get_task_count(task_by_id') = get_task_count(task_by_id)]_vars

----------------------------------------------------------------------------
(* Properties of the console *)

ConsoleFlows == {"run", "switch_workspace_flow", "delete_workspace_flow"}

(* C20: after every completed flow of the console that leaves the menu loop
   running (start-up, switching the workspace, deleting a workspace), ended
   in success or in a reported error, the workspace the task service has
   loaded is the registry's active workspace. *)
C20_LoadedIsActive ==
  (last.op \in ConsoleFlows /\ Running) =>
    current_workspace_id = active_workspace_id

----------------------------------------------------------------------------
(* Order of the day lists *)

IdsOf(by_day, h, d) == [i \in 1..Len(by_day[d]) |-> h[by_day[d][i]].id]

Before(seq, x, y) ==
  \E i, j \in 1..Len(seq) : i < j /\ seq[i] = x /\ seq[j] = y

(* C21: within a day the list order is insertion order: no handler among
   add_task, remove_task, mark_task_done, update_task_status, update_task and
   load_workspace of the same workspace swaps two tasks that stay in a day
   list, and add_task puts the new task after all the tasks the day holds. *)
C21_InsertionOrderKept ==
  [][\A d \in DayInputs :
       LET old == IdsOf(tasks_by_day, heap, d)
           new == IdsOf(tasks_by_day', heap', d)
       IN /\ \A x, y \in Range(old) \cap Range(new) :
               Before(old, x, y) => ~Before(new, y, x)
          /\ last'.op = "add_task" =>
               \A i \in 1..Len(new) :
                 new[i] \notin Range(old) => i = Len(new)]_vars

(* a day holds two tasks, the later one added after a removal, under the
   identifier the removed task had *)
C21_Witness ==
  /\ last.op = "add_task" /\ last.result = "ok"
  /\ \E d \in DayInputs :
       /\ Len(tasks_by_day[d]) = 2
       /\ IdsOf(tasks_by_day, heap, d)[1][2] > IdsOf(tasks_by_day, heap, d)[2][2]

----------------------------------------------------------------------------
(* Properties of the task service over stored files *)

(* C22: in every state of the task service the day lists are keyed by exactly
   the seven days, and so is the partition TaskRepository.load returns for
   any task file it loads without raising. *)
C22_SevenDaysAlways ==
  /\ DOMAIN tasks_by_day = Day
  /\ Cardinality(Day) = 7
  /\ \A w \in WorkspaceIds :
       LET r == TaskRepositoryLoad(task_files[w])
       IN r.ok => DOMAIN r.val = Day

(* a workspace loaded from a file that holds one day only *)
C22_Witness ==
  /\ last.op = "load_workspace" /\ last.result = "ok"
  /\ current_workspace_id # None
  /\ LET file == task_files[current_workspace_id]
     IN /\ file.kind = "json"
        /\ DOMAIN file.data = {DayValue("TUESDAY")}
  /\ tasks_by_day["TUESDAY"] # <<>>
  /\ tasks_by_day["MONDAY"] = <<>>

(* the name index _rebuild_indexes builds for a partition: under each name
   key the identifiers of the tasks with that key, in day order *)
NamesOf(part) ==
  [k \in {NameKey(Flat(part)[i].title) : i \in 1..Len(Flat(part))} |->
     LET hits == SelectSeq(Flat(part), LAMBDA t : NameKey(t.title) = k)
     IN [i \in 1..Len(hits) |-> hits[i].id]]

(* C24: load_workspace(B) on a service bound to another workspace A, when it
   returns, leaves the service bound to B with the day lists, the identifier
   index and the name index of B's file; and load_workspace, whatever its
   outcome, writes no file. *)
C24_LoadRebindsAndWritesNothing ==
  [][last'.op = "load_workspace" =>
       /\ UNCHANGED disk
       /\ (/\ last'.result = "ok"
           /\ current_workspace_id # None
           /\ current_workspace_id' # current_workspace_id) =>
            LET part == TaskRepositoryLoad(
                          task_files[current_workspace_id']).val
            IN /\ current_workspace_id' \in WorkspaceIds
               /\ Deref(tasks_by_day', heap') = part
               /\ DOMAIN task_by_id'
                    = {Flat(part)[i].id : i \in 1..Len(Flat(part))}
               /\ \A i \in 1..Len(Flat(part)) :
                    heap'[task_by_id'[Flat(part)[i].id]] = Flat(part)[i]
               /\ task_by_name' = NamesOf(part)]_vars

(* bound to B after a load, B's file holding a task, while the file of the
   workspace A bound before holds a task the service wrote *)
C24_Witness ==
  /\ last.op = "load_workspace" /\ last.result = "ok"
  /\ current_workspace_id # None
  /\ Flat(tasks_by_day) # <<>>
  /\ \E A \in WorkspaceIds \ {current_workspace_id} :
       /\ task_files[A].kind = "json"
       /\ DocTaskIds(task_files[A]) \ DocTaskIds(task_files[current_workspace_id])
            # {}
       /\ DOMAIN task_files[A].data = {DayValue(d) : d \in Day}

(* how many times the identifier is referred to by a bucket of the name
   index *)
NameReferences(by_name, id) ==
  Cardinality({<<k, i>> \in (DOMAIN by_name) \X (1..(MaxTasks + 2)) :
                 i <= Len(by_name[k]) /\ by_name[k][i] = id})

(* C25: after update_task(id, title) succeeds with a title whose name key
   differs from that of the old title, find_by_name(old title) does not
   contain the task, find_by_name(new title) contains it exactly once, no
   bucket of the name index is empty and the index refers to the identifier
   once. *)
C25_RenameMovesIndexEntry ==
  [][\A id \in TaskIds :
       (/\ last'.op = "update_task"
        /\ last'.result = "ok"
        /\ id \in DOMAIN task_by_id
        /\ NameKey(heap[task_by_id[id]].title)
             # NameKey(heap'[task_by_id'[id]].title))
       => LET old == find_by_name(task_by_id', task_by_name', heap',
                                  heap[task_by_id[id]].title)
              new == find_by_name(task_by_id', task_by_name', heap',
                                  heap'[task_by_id'[id]].title)
          IN /\ old.ok
             /\ \A i \in 1..Len(old.val) : old.val[i].id # id
             /\ new.ok
             /\ Cardinality({i \in 1..Len(new.val) : new.val[i].id = id}) = 1
             /\ \A k \in DOMAIN task_by_name' : task_by_name'[k] # <<>>
             /\ NameReferences(task_by_name', id) = 1]_vars

(* C26: a task call that ends with TaskNotFoundError (remove_task,
   mark_task_done, update_task_status, update_task with an unknown
   identifier) or, with a workspace loaded, with DuplicateTaskError
   (add_task) leaves the day lists, the tasks, both indexes and every file as
   they were. *)
C26_NotFoundAndDuplicateChangeNothing ==
  [][(\/ /\ last'.op \in {"remove_task", "mark_task_done",
                          "update_task_status", "update_task"}
         /\ last'.result = "TaskNotFoundError"
      \/ /\ last'.op = "add_task"
         /\ last'.result = "DuplicateTaskError"
         /\ current_workspace_id # None)
     => UNCHANGED <<index, disk>>]_vars

(* a duplicate was just rejected by a loaded service whose file holds the
   task it collided with *)
C26_Witness ==
  /\ last.op = "add_task" /\ last.result = "DuplicateTaskError"
  /\ current_workspace_id # None
  /\ Flat(tasks_by_day) # <<>>
  /\ DocTaskIds(task_files[current_workspace_id]) = DOMAIN task_by_id

(* a task file that is absent, zero-length or not parseable as JSON *)
Unreadable(file) ==
  file.kind \in {"absent", "empty", "corrupt", "undecodable"}

(* C27: for a task file that is absent, zero-length or not JSON,
   TaskRepository.load returns the partition with every day empty and does
   not raise, and load_workspace of that workspace returns with the service
   bound to it, holding no task, and with every file as it was. *)
C27_UnreadableFileLoadsEmpty ==
  [][\A w \in WorkspaceIds :
       (Unreadable(task_files[w]) /\ LoadWorkspace(w))
       => /\ TaskRepositoryLoad(task_files[w]) = Ok(EmptyPartition)
          /\ last'.result = "ok"
          /\ current_workspace_id' = w
          /\ tasks_by_day' = EmptyPartition
          /\ get_task_count(task_by_id') = 0
          /\ task_by_name' = EmptyDict
          /\ UNCHANGED disk]_vars

----------------------------------------------------------------------------
(* Further properties of the workspace registry *)

(* C23: every workspace the registry holds in memory has a name that is not
   empty after trimming, also after a create_workspace or an update_workspace
   that was rejected for its name. *)
C23_NameNeverEmpty ==
  \A i \in 1..Len(workspaces) : Strip(workspaces[i].name) # <<>>

(* C28: set_active_workspace(id) for an id the registry holds returns with
   that workspace the only one flagged active in memory, the tracked active
   id equal to id, and workspaces.json holding the record of every workspace
   in memory, that of the target the only one flagged; for an id the registry
   does not hold it raises and leaves every flag, the active id and the files
   as they were. *)
C28_SetActiveFlagsOnlyTarget ==
  [][\A id \in WorkspaceIds :
       SetActiveWorkspace(id) =>
         IF HasId(workspaces, id)
           THEN /\ last'.result = "ok"
                /\ active_workspace_id' = id
                /\ Len(workspaces') = Len(workspaces)
                /\ \A i \in 1..Len(workspaces') :
                     /\ workspaces'[i].id = workspaces[i].id
                     /\ workspaces'[i].is_active = (workspaces'[i].id = id)
                /\ workspaces_file'.kind = "json"
                /\ Len(workspaces_file'.data) = Len(workspaces')
                /\ \A i \in 1..Len(workspaces') :
                     /\ workspaces_file'.data[i].id = workspaces'[i].id
                     /\ workspaces_file'.data[i].name = workspaces'[i].name
                     /\ workspaces_file'.data[i].is_active
                          = (workspaces'[i].id = id)
         ELSE /\ last'.result = "TaskManagerError"
              /\ UNCHANGED <<registry, disk>>]_vars

(* the first of two workspaces was just made active, the second had its flag
   cleared by the call *)
C28_Witness ==
  /\ last.op = "set_active_workspace" /\ last.result = "ok"
  /\ Len(workspaces) = 2
  /\ FlaggedInMemory = {1}
  /\ FlaggedOnDisk = {1}
  /\ workspaces[2].updated_at # None
  /\ active_workspace_id = workspaces[1].id

(* C29: when workspaces.json holds more than one record flagged active,
   after load_all the tracked active id is the id of the last flagged record
   of the list and get_active_workspace returns that workspace. *)
C29_LastFlaggedWins ==
  (/\ last.op = "load_all" /\ last.result = "ok"
   /\ Cardinality(FlaggedOnDisk) > 1)
  => LET i == CHOOSE x \in FlaggedOnDisk : \A y \in FlaggedOnDisk : y <= x
         record == workspaces_file.data[i]
     IN /\ active_workspace_id = record.id
        /\ get_active_workspace(Registry) # None
        /\ get_active_workspace(Registry)[1]
             = WorkspaceFromDict(record).val

(* load_all has just read a list of two records, both flagged *)
C29_Witness ==
  /\ last.op = "load_all" /\ last.result = "ok"
  /\ FlaggedOnDisk = {1, 2}
  /\ Len(workspaces) = 2
  /\ active_workspace_id = workspaces_file.data[2].id
  /\ active_workspace_id # workspaces_file.data[1].id

----------------------------------------------------------------------------
(* Properties of the workspace store *)

(* C30: WorkspaceRepository.delete_workspace(id) returns True and rewrites
   workspaces.json without the record of that id, the other records as they
   were and in their order, when the file holds a record of that id; when it
   holds none it returns False and writes nothing: the file and its backup
   are as they were. *)
C30_StoreDeleteRewritesOrLeaves ==
  [][\A id \in WorkspaceIds :
       (last'.op = "workspace_store_delete" /\ StoreDeleteWorkspace(id)) =>
         LET records == IF workspaces_file.kind = "json"
                          THEN workspaces_file.data ELSE <<>>
         IN IF \E i \in 1..Len(records) : records[i].id = id
              THEN /\ last'.result = "ok"
                   /\ last'.ret = TRUE
                   /\ workspaces_file'
                        = JsonFile(SelectSeq(records, LAMBDA r : r.id # id))
            ELSE /\ last'.result = "ok"
                 /\ last'.ret = FALSE
                 /\ UNCHANGED <<workspaces_file, workspaces_backup>>]_vars

(* a delete has just returned True: the file holds one record and the backup
   the two records the file held before *)
C30_Witness ==
  /\ last.op = "workspace_store_delete"
  /\ last.ret = TRUE
  /\ workspaces_file.kind = "json" /\ Len(workspaces_file.data) = 1
  /\ workspaces_backup.kind = "json" /\ Len(workspaces_backup.data) = 2
  /\ workspaces_backup.data[2] = workspaces_file.data[1]

(* the records workspaces.json holds *)
Records(file) == IF file.kind = "json" THEN file.data ELSE <<>>

(* C31: WorkspaceRepository.save_workspace(workspace) keeps the identifiers
   of the persisted list distinct: a record of the same id is replaced where
   it stands and the list keeps its length, else the workspace is appended at
   the end; every other record stays as it was, where it was. *)
C31_UpsertReplacesOrAppends ==
  [][\A workspace \in UpsertInputs :
       (/\ last'.op = "workspace_store_upsert"
        /\ StoreUpsertWorkspace(workspace))
       => LET old == Records(workspaces_file)
              new == Records(workspaces_file')
              hits == {i \in 1..Len(old) : old[i].id = workspace.id}
          IN /\ workspaces_file'.kind = "json"
             /\ \A i, j \in 1..Len(new) : new[i].id = new[j].id => i = j
             /\ IF hits # {}
                  THEN /\ Len(new) = Len(old)
                       /\ \A i \in 1..Len(old) :
                            new[i] = IF i \in hits
                                       THEN WorkspaceToDict(workspace)
                                     ELSE old[i]
                ELSE new = Append(old, WorkspaceToDict(workspace))]_vars

(* an upsert has just replaced the first of two records: the backup holds
   the list as it was, with the old name in that place *)
C31_Witness ==
  /\ last.op = "workspace_store_upsert" /\ last.result = "ok"
  /\ Len(Records(workspaces_file)) = 2
  /\ Len(Records(workspaces_backup)) = 2
  /\ workspaces_backup.data[1].id = workspaces_file.data[1].id
  /\ workspaces_backup.data[1].name = <<"x">>
  /\ workspaces_file.data[1].name = <<"y">>
  /\ workspaces_backup.data[2] = workspaces_file.data[2]

----------------------------------------------------------------------------
(* Properties of the backups *)

(* the backup a save leaves for a file that held old: the content old when
   the file existed and the copy could be written, else the backup as it
   was *)
BackupAfterSave(old, backup) ==
  IF FileExists(old) /\ backup_writable THEN old ELSE backup

(* C32: a save of either store writes the primary file whether or not the
   backup could be made; when the file existed and the copy can be written,
   the backup then holds what the file held just before the save; and a load
   of either store gives what the primary file holds, whatever the backup
   holds, and leaves both files alone. *)
C32_BackupBeforeOverwrite ==
  [][/\ (/\ last'.op \in {"add_task", "remove_task"}
         /\ last'.result = "ok")
        => LET w == current_workspace_id
           IN /\ task_files'[w]
                   = JsonFile(TaskDocument(Deref(tasks_by_day', heap')))
              /\ task_backups'[w]
                   = BackupAfterSave(task_files[w], task_backups[w])
     /\ (/\ last'.op \in {"create_workspace", "set_active_workspace",
                           "delete_workspace"}
         /\ last'.result = "ok")
        => /\ workspaces_file' = JsonFile(WorkspaceDocument(workspaces'))
           /\ workspaces_backup'
                = BackupAfterSave(workspaces_file, workspaces_backup)
     /\ (last'.op = "load_workspace" /\ last'.result = "ok")
        => /\ UNCHANGED disk
           /\ Deref(tasks_by_day', heap')
                = TaskRepositoryLoad(task_files[current_workspace_id']).val
     /\ (last'.op = "load_all" /\ last'.result = "ok")
        => /\ UNCHANGED disk
           /\ WorkspaceDocument(workspaces') = Records(workspaces_file)
    ]_vars

(* a workspace was loaded whose task file is gone while its backup holds a
   task: the service holds no task; and the backup of workspaces.json holds
   a list that the file no longer holds *)
C32_Witness ==
  /\ last.op = "load_workspace" /\ last.result = "ok"
  /\ current_workspace_id # None
  /\ ~FileExists(task_files[current_workspace_id])
  /\ DocTaskIds(task_backups[current_workspace_id]) # {}
  /\ Flat(tasks_by_day) = <<>>
  /\ FileExists(workspaces_backup)
  /\ workspaces_backup # workspaces_file

----------------------------------------------------------------------------
(* Properties of delete_workspace *)

(* C33: delete_workspace(id) writes in a fixed order, the workspace record
   first and the task file second: whether the call completes, fails or is
   cut short between its writes, a task file of id may be left without a
   record, but whenever the call has removed the task file of id,
   workspaces.json holds no record of id. *)
C33_RecordGoesBeforeTaskFile ==
  [][\A id \in WorkspaceIds :
       (/\ last'.op = "delete_workspace"
        /\ FileExists(task_files[id])
        /\ ~FileExists(task_files'[id]))
       => id \notin DocWorkspaceIds(workspaces_file')]_vars

(* a delete_workspace was cut short: the record of a workspace is gone and
   its task file is still there, while another record is kept *)
C33_Witness ==
  /\ last.op = "delete_workspace" /\ last.result = "crashed"
  /\ \E id \in WorkspaceIds :
       /\ FileExists(task_files[id])
       /\ id \notin DocWorkspaceIds(workspaces_file)
  /\ DocWorkspaceIds(workspaces_file) # {}

(* a delete_workspace has failed after it took the workspace out of memory:
   the record and the task file are both still there *)
C33_FailureWitness ==
  /\ last.op = "delete_workspace" /\ last.result = "ValueError"
  /\ \E id \in DocWorkspaceIds(workspaces_file) :
       /\ FileExists(task_files[id])
       /\ ~HasId(workspaces, id)

----------------------------------------------------------------------------
(* Properties of the indexes *)

(* the tasks of the seven day lists, in day order *)
ListedTasks == [i \in 1..Len(Flat(tasks_by_day)) |-> heap[Flat(tasks_by_day)[i]]]

(* C34: in every state, also after a call that failed, the identifier index
   has as keys exactly the identifiers of the tasks in the day lists, every
   bucket of the name index is non-empty and holds exactly the identifiers of
   the listed tasks whose lowercased, trimmed title is its key, and every
   identifier in a bucket is a key of the identifier index. *)
C34_IndexesAgreeWithLists ==
  /\ DOMAIN task_by_id = {ListedTasks[i].id : i \in 1..Len(ListedTasks)}
  /\ \A k \in DOMAIN task_by_name :
       /\ task_by_name[k] # <<>>
       /\ Range(task_by_name[k])
            = {ListedTasks[i].id : i \in {j \in 1..Len(ListedTasks) :
                                            NameKey(ListedTasks[j].title) = k}}
       /\ Range(task_by_name[k]) \subseteq DOMAIN task_by_id
  /\ \A i \in 1..Len(ListedTasks) :
       NameKey(ListedTasks[i].title) \in DOMAIN task_by_name

(* C35: with a workspace loaded, no two tasks of one day list have the same
   lowercased, trimmed title, whatever operations ran, a rename by
   update_task included. *)
C35_TitlesUniquePerDay ==
  current_workspace_id # None
    => \A d \in Day : \A i, j \in 1..Len(tasks_by_day[d]) :
         NameKey(heap[tasks_by_day[d][i]].title)
           = NameKey(heap[tasks_by_day[d][j]].title) => i = j

----------------------------------------------------------------------------
(* Counting tasks *)

(* TaskRepository.get_task_count: load, then the sum of the lengths *)
repository_get_task_count(file) ==
  LET r == TaskRepositoryLoad(file)
  IN IF ~r.ok THEN r ELSE Ok(Len(Flat(r.val)))

(* the identifiers a caller may give to add_task: that of a task made just
   now, or that of a task the service already holds *)
AddTaskIds ==
  (IF FreshTaskIds = {} THEN {} ELSE {NewTaskId}) \cup DOMAIN task_by_id

(* load_workspace, add_task and remove_task, add_task also with a task whose
   identifier is already held *)
CountNext ==
  \/ \E w \in TaskWorkspaceInputs : LoadWorkspace(w)
  \/ \E day \in DayInputs, title \in OrderTitleInputs, id \in AddTaskIds :
       AddTask(day, title, <<>>, id)
  \/ \E id \in TaskIds : RemoveTask(id)

SpecCount == Init /\ [][CountNext]_vars

(* C36: with a workspace loaded, get_task_count() is the total length of the
   seven day lists, after a successful mutation it is also what the task
   store counts for the bound workspace, and no identifier is in two places
   of the day lists; add_task may be given a task whose identifier is already
   held on another day. *)
C36_CountIsTotalLength ==
  current_workspace_id # None
    => /\ get_task_count(task_by_id) = Len(ListedTasks)
       /\ (last.op \in MutatingTaskOps /\ last.result = "ok")
            => repository_get_task_count(task_files[current_workspace_id])
                 = Ok(get_task_count(task_by_id))
       /\ \A i, j \in 1..Len(ListedTasks) :
            ListedTasks[i].id = ListedTasks[j].id => i = j

----------------------------------------------------------------------------
(* Reloading *)

(* the identifiers of the tasks find_by_name(name) returns, in its order *)
FoundIds(by_id, by_name, h, name) ==
  LET r == find_by_name(by_id, by_name, h, name)
  IN IF ~r.ok THEN r ELSE Ok([i \in 1..Len(r.val) |-> r.val[i].id])

(* C37: with a workspace loaded and right after a successful mutation, a
   load_workspace of the bound workspace leaves what find_by_name(n) returns
   unchanged for every n: the same tasks in the same order. *)
C37_ReloadKeepsFindByName ==
  [][(/\ last'.op = "load_workspace"
      /\ last'.result = "ok"
      /\ last.op \in MutatingTaskOps
      /\ last.result = "ok"
      /\ current_workspace_id # None
      /\ current_workspace_id' = current_workspace_id)
     => \A name \in OrderTitleInputs :
          FoundIds(task_by_id', task_by_name', heap', name)
            = FoundIds(task_by_id, task_by_name, heap, name)]_vars

----------------------------------------------------------------------------
(* Task files and the registry *)

(* no task file exists for an identifier that has no record in the workspace
   file *)
NoOrphan(tfiles, wfile) ==
  \A id \in WorkspaceIds : FileExists(tfiles[id]) => id \in DocWorkspaceIds(wfile)

(* both services, the task service loading only workspaces that have a
   record in the workspace file *)
RegisteredNext ==
  \/ LoadAll
  \/ CreateWorkspace(DefaultName)
  \/ \E id \in WorkspaceIds : DeleteWorkspace(id)
  \/ \E id \in WorkspaceIds : SetActiveWorkspace(id)
  \/ \E w \in DocWorkspaceIds(workspaces_file) : LoadWorkspace(w)
  \/ \E day \in DayInputs :
       /\ FreshTaskIds # {}
       /\ AddTask(day, StatusTitleInput, <<>>, NewTaskId)
  \/ ClearWorkspace

SpecRegistered == Init /\ [][RegisteredNext]_vars

(* C38: a call of either service that succeeds creates no orphaned task
   file: when every task file belonged to a workspace of the registry before
   the call, it does so after it, also for a task mutation that follows the
   delete of the workspace the task service is bound to. *)
C38_NoOrphanTaskFile ==
  [][(/\ last'.result = "ok"
      /\ last'.op \in MutatingTaskOps \cup MutatingRegistryOps
      /\ NoOrphan(task_files, workspaces_file))
     => NoOrphan(task_files', workspaces_file')]_vars

----------------------------------------------------------------------------
(* Persisted workspace records *)

(* the registry of a later run, its handlers called in any order: load_all
   may come first, later or never *)
SpecRegistryAnyOrder == InitAnyFile /\ [][RegistryNext]_vars

(* C39: a record of the workspace file stays in the file until delete is
   called with its id, whether load_all was called before or not: create,
   update, set_active, create_default and ensure_active_workspace drop no
   record. *)
C39_OnlyDeleteDropsRecord ==
  [][\A id \in WorkspaceIds :
       (/\ id \in DocWorkspaceIds(workspaces_file)
        /\ id \notin DocWorkspaceIds(workspaces_file'))
       => (last'.op = "delete_workspace" /\ DeleteWorkspace(id))]_vars

----------------------------------------------------------------------------
(* A load_workspace that fails *)

(* C40: a load_workspace whose store load fails changes nothing: the bound
   workspace id, the day lists, both indexes and every file stay as they
   were, and the next successful mutation is written to the file of the
   workspace that was bound before, no other task file changing. *)
C40_FailedLoadChangesNothing ==
  [][/\ (last'.op = "load_workspace" /\ last'.result # "ok")
          => UNCHANGED <<index, disk>>
     /\ (/\ last'.op \in MutatingTaskOps
         /\ last'.result = "ok"
         /\ last.op = "load_workspace"
         /\ last.result # "ok"
         /\ current_workspace_id # None)
          => /\ current_workspace_id' = current_workspace_id
             /\ task_files'[current_workspace_id]
                  = JsonFile(TaskDocument(Deref(tasks_by_day', heap')))
             /\ \A w \in WorkspaceIds \ {current_workspace_id} :
                  task_files'[w] = task_files[w]]_vars

(* a load of another workspace has just failed on its file while the service
   is bound to a workspace whose tasks it holds and whose file holds them *)
C40_Witness ==
  /\ last.op = "load_workspace"
  /\ last.result = "ValueError"
  /\ current_workspace_id # None
  /\ Len(Flat(tasks_by_day)) > 0
  /\ task_files[current_workspace_id]
       = JsonFile(TaskDocument(Deref(tasks_by_day, heap)))
  /\ \E w \in WorkspaceIds \ {current_workspace_id} :
       ~TaskRepositoryLoad(task_files[w]).ok

====
